---------------------------- MODULE Spec2Model ----------------------------
(***************************************************************************)
(* A model of font-manager (github.com/logandonley/font-manager): the      *)
(* Manager (pkg/fm/manager.go), the FontInstaller and the filesystem it    *)
(* uses as its only store.                                                   *)
(*                                                                         *)
(* Text is a sequence of one-character strings, so that the byte-level     *)
(* operations of the code (sanitizeFontName, filepath.Ext, strings.Split,  *)
(* strings.HasPrefix, strings.TrimSpace) are computed, not assumed.        *)
(* A path is a sequence of components, each a text.                        *)
(***************************************************************************)
EXTENDS Integers, Sequences, FiniteSets, TLC

(***************************************************************************)
(* Characters and text                                                     *)
(***************************************************************************)

Upper == <<"A","B","C","D","E","F","G","H","I","J","K","L","M",
           "N","O","P","Q","R","S","T","U","V","W","X","Y","Z">>

Lower == <<"a","b","c","d","e","f","g","h","i","j","k","l","m",
           "n","o","p","q","r","s","t","u","v","w","x","y","z">>

Digits == <<"0","1","2","3","4","5","6","7","8","9">>

\* The characters of the model in byte order (the order os.ReadDir and so
\* filepath.Walk sort names by).
Alphabet == <<" ", "#", "-", ".", "/">> \o Digits \o <<":", "@">> \o Upper
              \o <<"_">> \o Lower

Range(s) == {s[i] : i \in 1..Len(s)}

Chars == Range(Alphabet)
UpperChars == Range(Upper)
LowerChars == Range(Lower)
DigitChars == Range(Digits)

\* The byte order of the characters, as a table
OrdTable == [c \in Chars |-> CHOOSE i \in 1..Len(Alphabet) : Alphabet[i] = c]

Ord(c) == OrdTable[c]

IsUpper(c) == c \in UpperChars
IsLower(c) == c \in LowerChars
IsDigit(c) == c \in DigitChars

\* unicode.ToLower on the characters of the model, as a table
LowerTable ==
    [c \in Chars |-> IF c \in UpperChars
                     THEN Lower[CHOOSE i \in 1..Len(Upper) : Upper[i] = c]
                     ELSE c]

ToLowerChar(c) == LowerTable[c]

\* strings.ToLower
ToLower(s) == [i \in 1..Len(s) |-> ToLowerChar(s[i])]

\* strings.EqualFold on the characters of the model
EqualFold(s, t) == ToLower(s) = ToLower(t)

\* strings.HasPrefix
HasPrefix(s, p) == Len(p) <= Len(s) /\ SubSeq(s, 1, Len(p)) = p

\* strings.HasSuffix
HasSuffix(s, p) == Len(p) <= Len(s) /\ SubSeq(s, Len(s) - Len(p) + 1, Len(s)) = p

\* strings.TrimSuffix
TrimSuffix(s, p) == IF HasSuffix(s, p) THEN SubSeq(s, 1, Len(s) - Len(p)) ELSE s

\* The positions of s holding a character that is not in cut
KeptPos(s, cut) == {i \in 1..Len(s) : s[i] \notin cut}

Min(S) == CHOOSE x \in S : \A y \in S : x <= y
Max(S) == CHOOSE x \in S : \A y \in S : x >= y

\* strings.Trim(s, cutset): the characters of cut removed at both ends
Trim(s, cut) ==
    IF KeptPos(s, cut) = {} THEN <<>>
    ELSE SubSeq(s, Min(KeptPos(s, cut)), Max(KeptPos(s, cut)))

\* strings.TrimSpace on the characters of the model (the space is the only
\* white space of the alphabet)
TrimSpace(s) == Trim(s, {" "})

\* The positions of character c in s
Positions(s, c) == {i \in 1..Len(s) : s[i] = c}

\* strings.Split(s, sep) for a one-character separator: the fields between
\* the separators, empty fields kept
RECURSIVE Split(_, _)
Split(s, c) ==
    IF Positions(s, c) = {} THEN <<s>>
    ELSE LET i == Min(Positions(s, c))
         IN  <<SubSeq(s, 1, i - 1)>> \o Split(SubSeq(s, i + 1, Len(s)), c)

\* strings.ReplaceAll(s, " ", "")
NotSpace(c) == c # " "
RemoveSpaces(s) == SelectSeq(s, NotSpace)

\* Byte-wise order of two texts (s sorts before t)
RECURSIVE TextLess(_, _)
TextLess(s, t) ==
    IF t = <<>> THEN FALSE
    ELSE IF s = <<>> THEN TRUE
    ELSE IF s[1] # t[1] THEN Ord(s[1]) < Ord(t[1])
    ELSE TextLess(Tail(s), Tail(t))

(***************************************************************************)
(* Helper functions of the installer                                       *)
(***************************************************************************)

\* filepath.Base of a slash-separated name: the last element, trailing
\* slashes removed; "." for the empty name, "/" for a name of slashes only
Base(name) ==
    IF name = <<>> THEN <<".">>
    ELSE LET kept == KeptPos(name, {"/"})
         IN  IF kept = {} THEN <<"/">>
             ELSE LET e == Max(kept)
                      slashes == {i \in 1..e : name[i] = "/"}
                      b == IF slashes = {} THEN 1 ELSE Max(slashes) + 1
                  IN  SubSeq(name, b, e)

\* filepath.Ext: the suffix beginning at the final dot of the final element
Ext(name) ==
    LET slashes == Positions(name, "/")
        from == IF slashes = {} THEN 1 ELSE Max(slashes) + 1
        dots == {i \in from..Len(name) : name[i] = "."}
    IN  IF dots = {} THEN <<>> ELSE SubSeq(name, Max(dots), Len(name))

\* An isFontFile that compares the extension as it is written
isFontFileExact(name) ==
    Ext(name) \in {<<".","t","t","f">>, <<".","o","t","f">>}

isFontFile(name) ==
    ToLower(Ext(name)) \in {<<".","t","t","f">>, <<".","o","t","f">>}

\* The rune mapping of sanitizeFontName
SanitizeChar(c) ==
    IF IsLower(c) \/ IsUpper(c) \/ IsDigit(c) \/ c = "-" \/ c = "_" THEN c ELSE "-"

\* A sanitizeFontName without the strings.Trim
sanitizeFontNameUntrimmed(name) ==
    [i \in 1..Len(name) |-> SanitizeChar(name[i])]

sanitizeFontName(name) ==
    Trim([i \in 1..Len(name) |-> SanitizeChar(name[i])], {"-"})


(***************************************************************************)
(* Data: font descriptors, file contents, archives                         *)
(***************************************************************************)

\* A map[string]string with no entries
EmptyMap == [k \in {} |-> <<>>]

\* type Font struct { Name, Source, URL string; Meta map[string]string }
Font(name, source, url, meta) ==
    [Name |-> name, Source |-> source, URL |-> url, Meta |-> meta]

\* The zero Font
NoFont == Font(<<>>, <<>>, <<>>, EmptyMap)

\* The content of a file: plain bytes, or the JSON object json.Marshal wrote
\* for a map[string]string (kept as the object it decodes to: for the text
\* of the model json.Unmarshal(json.Marshal(m)) = m).
TextFile(t) == [kind |-> "text", text |-> t, map |-> EmptyMap]
JSONFile(m) == [kind |-> "json", text |-> <<>>, map |-> m]

\* One entry of a zip archive (zip.File): its name and its bytes. An entry
\* whose name ends in a slash is a directory (zip.FileHeader.Mode).
ZipEntry(name, data) == [Name |-> name, data |-> data]

IsDirEntry(e) == e.Name # <<>> /\ e.Name[Len(e.Name)] = "/"

\* A byte stream handed to the installer: a zip archive with its entries, or
\* bytes zip.NewReader rejects.
Zip(entries) == [valid |-> TRUE, File |-> entries]
NotAZip == [valid |-> FALSE, File |-> <<>>]

\* An error is the chain of its messages, outermost first; nil is the empty
\* chain. fmt.Errorf("ctx: %w", err) puts ctx in front.
NoErr == <<>>
Wrap(ctx, err) == <<ctx>> \o err

(***************************************************************************)
(* The filesystem: the set of directories and the regular files with their *)
(* contents. A path is the sequence of its components.                     *)
(***************************************************************************)

VARIABLES
    paths,      \* platform.FontPaths: [UserDir, SystemDir], fixed by the platform
    dirs,       \* the directories that exist
    files,      \* the regular files that exist: path -> content
    sources,    \* DefaultManager.sources, in registration order
    now,        \* the wall clock, in timestamp units
    last,       \* the last operation called, its result and what it did
    running     \* the Install calls in progress, each with its position

vars == <<paths, dirs, files, sources, now, last, running>>

\* filepath.Join(dir, name) for one element: an empty element adds nothing
Join(dir, name) == IF name = <<>> THEN dir ELSE Append(dir, name)

\* filepath.Dir of a path with at least one component
Dir(p) == SubSeq(p, 1, Len(p) - 1)

\* p is dir or lies below it
IsUnder(p, dir) == Len(dir) <= Len(p) /\ SubSeq(p, 1, Len(dir)) = dir

\* The path as the string the code handles: components joined by "/"
RECURSIVE PathStr(_)
PathStr(p) == IF p = <<>> THEN <<>> ELSE PathStr(Dir(p)) \o <<"/">> \o p[Len(p)]

\* dir and all its ancestors
Ancestors(dir) == {SubSeq(dir, 1, k) : k \in 1..Len(dir)}

\* os.MkdirAll
MkdirAll(d, dir) == d \cup Ancestors(dir)

\* os.WriteFile / os.Create + io.Copy: the file holds exactly the new content
WriteFile(f, p, content) == [q \in (DOMAIN f) \cup {p} |-> IF q = p THEN content ELSE f[q]]

\* os.RemoveAll: the directory and everything below it
RemoveAllDirs(d, dir) == {p \in d : ~IsUnder(p, dir)}
RemoveAllFiles(f, dir) == [q \in {p \in DOMAIN f : ~IsUnder(p, dir)} |-> f[q]]

\* The order in which filepath.Walk visits two files: by the first component
\* in which they differ (each directory is read sorted by name)
RECURSIVE WalkBefore(_, _)
WalkBefore(p, q) ==
    IF p = <<>> \/ q = <<>> THEN p = <<>> /\ q # <<>>
    ELSE IF p[1] # q[1] THEN TextLess(p[1], q[1])
    ELSE WalkBefore(Tail(p), Tail(q))

\* The sorted sequence sorted with path p put at its place
InsertInWalkOrder(sorted, p) ==
    LET before == {i \in 1..Len(sorted) : WalkBefore(sorted[i], p)}
        k == IF before = {} THEN 0 ELSE Max(before)
    IN  SubSeq(sorted, 1, k) \o <<p>> \o SubSeq(sorted, k + 1, Len(sorted))

\* The elements of a finite set of paths in walk order
RECURSIVE WalkOrder(_)
WalkOrder(S) ==
    IF S = {} THEN <<>>
    ELSE LET p == CHOOSE q \in S : TRUE
         IN  InsertInWalkOrder(WalkOrder(S \ {p}), p)

(***************************************************************************)
(* Listing: DefaultManager.listFontsInDir, List, IsInstalled               *)
(***************************************************************************)

DotSource == <<".","s","o","u","r","c","e">>
DotMetadata == <<".","m","e","t","a","d","a","t","a">>
DotInstalled == <<".","i","n","s","t","a","l","l","e","d">>

\* A walk whose callback skips no regular file
AllFilesInWalkOrder(f, dir) ==
    WalkOrder({p \in DOMAIN f : IsUnder(p, dir) /\ Len(p) > Len(dir)})

\* The regular files below dir that the walk callback does not skip, in the
\* order filepath.Walk reaches them
FontFilesInWalkOrder(f, dir) ==
    WalkOrder({p \in DOMAIN f : /\ IsUnder(p, dir)
                                /\ Len(p) > Len(dir)
                                /\ isFontFile(p[Len(p)])})

\* The font name the walk callback derives for a font file: the first
\* directory component below dir, or the file's stem when the file lies
\* directly in dir
FontNameOf(dir, path) ==
    IF Len(path) = Len(dir) + 1
    THEN TrimSuffix(path[Len(path)], Ext(path[Len(path)]))
    ELSE path[Len(dir) + 1]

\* os.ReadFile of the sidecars of a font directory: .source gives the Source
\* (white space trimmed), .installed the key installed_at (trimmed),
\* .metadata the keys of the JSON object it holds
ReadSource(f, src) == IF src \in DOMAIN f THEN TrimSpace(f[src].text) ELSE <<>>

ReadInstalled(f, ins) ==
    IF ins \in DOMAIN f
    THEN [k \in {"installed_at"} |-> TrimSpace(f[ins].text)]
    ELSE EmptyMap

ReadMetadata(f, met) ==
    IF met \in DOMAIN f /\ f[met].kind = "json" THEN f[met].map ELSE EmptyMap

\* The keys the walk callback sets last: the file and its directory
DerivedMeta(path) ==
    [k \in {"path", "directory"} |->
        IF k = "path" THEN PathStr(path) ELSE PathStr(Dir(path))]

\* A merge in which path and directory are set before the keys of .metadata
\* are merged, so that the file's keys win
MergeMetaFileWins(stamp, additionalMeta, derived) ==
    [k \in DOMAIN stamp \cup DOMAIN additionalMeta \cup DOMAIN derived |->
        IF k \in DOMAIN additionalMeta THEN additionalMeta[k]
        ELSE IF k \in DOMAIN derived THEN derived[k]
        ELSE stamp[k]]

\* font.Meta: the timestamp, overwritten by the keys of .metadata,
\* overwritten by path and directory
MergeMeta(stamp, additionalMeta, derived) ==
    [k \in DOMAIN stamp \cup DOMAIN additionalMeta \cup DOMAIN derived |->
        IF k \in DOMAIN derived THEN derived[k]
        ELSE IF k \in DOMAIN additionalMeta THEN additionalMeta[k]
        ELSE stamp[k]]

\* The Font the walk callback builds for a font file from the sidecars of the
\* directory that holds the file
FontAt(f, name, path) ==
    Font(name,
         ReadSource(f, Append(Dir(path), DotSource)),
         <<>>,
         MergeMeta(ReadInstalled(f, Append(Dir(path), DotInstalled)),
                   ReadMetadata(f, Append(Dir(path), DotMetadata)),
                   DerivedMeta(path)))

\* A walk callback without the check "already in our list": every font
\* file adds an entry
RECURSIVE CollectFontsUnchecked(_, _, _, _)
CollectFontsUnchecked(f, dir, todo, fonts) ==
    IF todo = <<>> THEN fonts
    ELSE CollectFontsUnchecked(f, dir, Tail(todo),
                               Append(fonts, FontAt(f, FontNameOf(dir, Head(todo)),
                                                    Head(todo))))

\* The walk callback applied to the font files in order: a file whose font
\* name is already in the list adds nothing
RECURSIVE CollectFonts(_, _, _, _)
CollectFonts(f, dir, todo, fonts) ==
    IF todo = <<>> THEN fonts
    ELSE LET path == Head(todo)
             fontName == FontNameOf(dir, path)
         IN  IF \E i \in 1..Len(fonts) : fonts[i].Name = fontName
             THEN CollectFonts(f, dir, Tail(todo), fonts)
             ELSE CollectFonts(f, dir, Tail(todo),
                               Append(fonts, FontAt(f, fontName, path)))

\* listFontsInDir: the fonts of dir, or the error of a walk whose root is
\* missing
listFontsInDir(d, f, dir) ==
    IF dir \notin d
    THEN [err |-> <<"walking directory">>, fonts |-> <<>>]
    ELSE [err |-> NoErr,
          fonts |-> CollectFonts(f, dir, FontFilesInWalkOrder(f, dir), <<>>)]

\* A List that returns the error of the walk of the system directory as it
\* returns the error of the walk of the user directory
ListOfStrict(userFonts, systemFonts) ==
    IF userFonts.err # NoErr
    THEN [err |-> Wrap("listing user fonts", userFonts.err), fonts |-> <<>>]
    ELSE IF systemFonts.err # NoErr
    THEN [err |-> Wrap("listing system fonts", systemFonts.err), fonts |-> <<>>]
    ELSE [err |-> NoErr, fonts |-> userFonts.fonts \o systemFonts.fonts]

\* List: the user directory's fonts, then the system directory's when its
\* walk succeeds
ListOf(userFonts, systemFonts) ==
    IF userFonts.err # NoErr
    THEN [err |-> Wrap("listing user fonts", userFonts.err), fonts |-> <<>>]
    ELSE [err |-> NoErr,
          fonts |-> userFonts.fonts \o
                    (IF systemFonts.err = NoErr THEN systemFonts.fonts ELSE <<>>)]

List(d, f) ==
    ListOf(listFontsInDir(d, f, paths.UserDir),
           listFontsInDir(d, f, paths.SystemDir))

\* The first font of the list whose name sanitizes to the sanitized name
\* asked for (0: none): the loop of IsInstalled and of Uninstall
FirstMatch(fonts, name) ==
    LET hits == {i \in 1..Len(fonts) :
                    sanitizeFontName(fonts[i].Name) = sanitizeFontName(name)}
    IN  IF hits = {} THEN 0 ELSE Min(hits)

\* DefaultManager.IsInstalled, given what its call of List returns
IsInstalledIn(l, name) ==
    IF l.err # NoErr
    THEN [err |-> Wrap("checking installation status", l.err), installed |-> FALSE]
    ELSE [err |-> NoErr, installed |-> FirstMatch(l.fonts, name) # 0]

\* DefaultManager.IsInstalled
IsInstalled(d, f, name) == IsInstalledIn(List(d, f), name)

(***************************************************************************)
(* The installer: FontInstaller.Install, extractFontFile, storeMetadata    *)
(***************************************************************************)

LICENSE == <<"L","I","C","E","N","S","E">>

\* time.Now().Format(time.RFC3339) at clock value t
TimeStr(t) == <<"T", Digits[t + 1]>>

\* extractFontFile: the entry's bytes written to destPath/Base(entry name);
\* os.Create fails when that path is a directory
extractFontFile(d, f, file, destPath) ==
    LET destFile == Join(destPath, Base(file.Name))
    IN  IF destFile \in d
        THEN [err |-> <<"creating destination file">>, files |-> f]
        ELSE [err |-> NoErr, files |-> WriteFile(f, destFile, TextFile(file.data))]

\* One round of the loop over zipReader.File for an entry that is not
\* skipped: a font file is extracted, then a LICENSE file is extracted; r1
\* is the result of the first extraction
ExtractIfFont(d, f, file, fontPath) ==
    IF isFontFile(file.Name)
    THEN extractFontFile(d, f, file, fontPath)
    ELSE [err |-> NoErr, files |-> f]

WrapExtractError(ctx, r) ==
    IF r.err # NoErr THEN [err |-> Wrap(ctx, r.err), files |-> r.files] ELSE r

ExtractIfLicense(d, r1, file, fontPath) ==
    IF r1.err # NoErr
    THEN WrapExtractError("extracting font file", r1)
    ELSE IF EqualFold(Base(file.Name), LICENSE)
    THEN WrapExtractError("extracting license file",
                          extractFontFile(d, r1.files, file, fontPath))
    ELSE r1

ExtractEntry(d, f, file, fontPath) ==
    ExtractIfLicense(d, ExtractIfFont(d, f, file, fontPath), file, fontPath)

\* The loop over zipReader.File: directories and dot files are skipped, font
\* files are extracted (and set installed), LICENSE files are extracted; the
\* first extraction error ends the loop
RECURSIVE ExtractEntries(_, _, _, _, _)
ExtractRest(d, r, entries, fontPath, installed) ==
    IF r.err # NoErr
    THEN [err |-> r.err, files |-> r.files, installed |-> installed]
    ELSE ExtractEntries(d, r.files, Tail(entries), fontPath,
                        installed \/ isFontFile(Head(entries).Name))

ExtractEntries(d, f, entries, fontPath, installed) ==
    IF entries = <<>>
    THEN [err |-> NoErr, files |-> f, installed |-> installed]
    ELSE IF \/ IsDirEntry(Head(entries))
            \/ HasPrefix(Base(Head(entries).Name), <<".">>)
    THEN ExtractEntries(d, f, Tail(entries), fontPath, installed)
    ELSE ExtractRest(d, ExtractEntry(d, f, Head(entries), fontPath), entries,
                     fontPath, installed)

\* A storeMetadata that leaves an existing .source file as it is
WriteSourceIfAbsent(f, fontPath, font) ==
    IF font.Source # <<>> /\ Append(fontPath, DotSource) \notin DOMAIN f
    THEN WriteFile(f, Append(fontPath, DotSource), TextFile(font.Source))
    ELSE f

\* storeMetadata: .source when the font has a Source, .metadata when it has
\* Meta, .installed with the time of the call
WriteSource(f, fontPath, font) ==
    IF font.Source # <<>>
    THEN WriteFile(f, Append(fontPath, DotSource), TextFile(font.Source))
    ELSE f

\* A storeMetadata that leaves out the .metadata file
WriteMetadataSkipped(f, fontPath, font) == f

WriteMetadata(f, fontPath, font) ==
    IF DOMAIN font.Meta # {}
    THEN WriteFile(f, Append(fontPath, DotMetadata), JSONFile(font.Meta))
    ELSE f

WriteInstalled(f, fontPath, t) ==
    WriteFile(f, Append(fontPath, DotInstalled), TextFile(TimeStr(t)))

storeMetadata(f, fontPath, font, t) ==
    WriteInstalled(WriteMetadata(WriteSource(f, fontPath, font), fontPath, font),
                   fontPath, t)

\* An Install without the check of installed: an archive without font
\* files is a successful install
FinishInstallUnchecked(d1, x, fontPath, font, t) ==
    IF x.err # NoErr
    THEN [dirs |-> d1, files |-> x.files, err |-> x.err]
    ELSE [dirs |-> d1, files |-> storeMetadata(x.files, fontPath, font, t),
          err |-> NoErr]

\* The end of FontInstaller.Install, d1 being the directories after MkdirAll
\* and x the result of the loop over the entries
FinishInstall(d1, x, fontPath, font, t) ==
    IF x.err # NoErr
    THEN [dirs |-> d1, files |-> x.files, err |-> x.err]
    ELSE IF ~x.installed
    THEN [dirs |-> d1, files |-> x.files,
          err |-> <<"no valid font files found in archive">>]
    ELSE [dirs |-> d1, files |-> storeMetadata(x.files, fontPath, font, t),
          err |-> NoErr]

\* FontInstaller.Install from MkdirAll(fontPath) on
InstallAt(d, f, fontPath, font, data, t) ==
    IF \E a \in Ancestors(fontPath) : a \in DOMAIN f
    THEN [dirs |-> d, files |-> f, err |-> <<"creating font directory">>]
    ELSE IF ~data.valid
    THEN [dirs |-> MkdirAll(d, fontPath), files |-> f,
          err |-> <<"reading zip data">>]
    ELSE FinishInstall(MkdirAll(d, fontPath),
                       ExtractEntries(MkdirAll(d, fontPath), f, data.File,
                                      fontPath, FALSE),
                       fontPath, font, t)

\* FontInstaller.Install of font from the byte stream data into fontDir, at
\* clock value t: the directories and files afterwards, and the error
FontInstallerInstall(d, f, fontDir, font, data, t) ==
    InstallAt(d, f, Join(fontDir, sanitizeFontName(font.Name)), font, data, t)

\* FontInstaller.IsInstalled: the font's directory exists and the walk of it
\* meets a font file
FontInstallerIsInstalled(d, f, fontDir, fontName) ==
    /\ Join(fontDir, sanitizeFontName(fontName)) \in d
    /\ \E p \in DOMAIN f :
         /\ IsUnder(p, Join(fontDir, sanitizeFontName(fontName)))
         /\ isFontFile(p[Len(p)])

(***************************************************************************)
(* Sources: the Source interface and two implementations, the mockSource   *)
(* of the manager's tests and NerdFontsSource                              *)
(***************************************************************************)

\* A mockSource: its name, its fonts (name -> zip content) and its failures
MockSource(name, fonts, failures) ==
    [kind |-> "mock", name |-> name, fonts |-> fonts, failures |-> failures]

\* NewNerdFontsSource(); what its download URL serves is the network's choice
NerdFontsSource ==
    [kind |-> "nerdfonts", name |-> <<"n","e","r","d","f","o","n","t","s">>,
     fonts |-> EmptyMap, failures |-> {}]

\* Source.Name()
SourceName(source) == source.name

\* The nil Source (an interface value that holds no source)
NilSource == [kind |-> "nil", name |-> <<>>, fonts |-> EmptyMap, failures |-> {}]

\* The byte streams a download from the network may deliver for a font: the
\* font's files, a license alone, or bytes that are no zip archive
TTF(name) == name \o <<".","t","t","f">>
OTF(name) == name \o <<".","o","t","f">>

SingleZip(name) ==
    Zip(<<ZipEntry(TTF(name), <<"t">>), ZipEntry(LICENSE, <<"l">>)>>)

MultiZip(name) ==
    Zip(<<ZipEntry(TTF(name), <<"t">>), ZipEntry(LICENSE, <<"l">>),
          ZipEntry(OTF(name), <<"o">>), ZipEntry(LICENSE, <<"l">>)>>)

LicenseZip == Zip(<<ZipEntry(LICENSE, <<"l">>)>>)

NetworkBodies(name) == {MultiZip(name), LicenseZip, NotAZip}

\* Source.Search: the results the call may return, each an error or a
\* sequence of candidates
SearchResults(source, name) ==
    IF source.kind = "mock"
    THEN IF name \in source.failures
         THEN {[err |-> <<"simulated failure">>, fonts |-> <<>>]}
         ELSE IF name \in DOMAIN source.fonts
         THEN {[err |-> NoErr,
                fonts |-> <<Font(name, source.name, <<>>, EmptyMap)>>]}
         ELSE {[err |-> NoErr, fonts |-> <<>>]}
    ELSE {[err |-> NoErr,
           fonts |-> <<Font(RemoveSpaces(TrimSpace(name)), SourceName(source), <<>>,
                            [k \in {"pending"} |-> <<"t","r","u","e">>])>>]}

\* Source.Download: the results the call may return, each an error or a byte
\* stream
DownloadResults(source, font) ==
    IF source.kind = "mock"
    THEN IF font.Name \in source.failures
         THEN {[err |-> <<"simulated failure">>, data |-> NotAZip]}
         ELSE IF font.Name \in DOMAIN source.fonts
         THEN {[err |-> NoErr, data |-> source.fonts[font.Name]]}
         ELSE {[err |-> <<"font not found">>, data |-> NotAZip]}
    ELSE {[err |-> <<"unexpected status code">>, data |-> NotAZip]}
         \cup {[err |-> NoErr, data |-> b] : b \in NetworkBodies(font.Name)}

\* platform.Manager.UpdateFontCache: nil or an error
UpdateFontCacheResults == {NoErr, <<"updating font cache">>}

(***************************************************************************)
(* What an operation did: the calls it made to its collaborators           *)
(***************************************************************************)

\* One call: Search or Download of a source, the GET of a URL, the
\* installer's Install of a font, os.RemoveAll, UpdateFontCache and, in
\* InstallFromConfig, a failed ParseFontSpec of a line and the manager's
\* Install for a line; with the error the call returned
Ev(ev, src, font, data, err) ==
    [ev |-> ev, src |-> src, font |-> font, data |-> data, err |-> err]

\* The outcome of an operation: the filesystem afterwards, the error
\* returned and the calls made
Outcome(d, f, err, log) == [dirs |-> d, files |-> f, err |-> err, log |-> log]

(***************************************************************************)
(* The manager: Install                                                    *)
(***************************************************************************)

HttpPrefix == <<"h","t","t","p",":","/","/">>
HttpsPrefix == <<"h","t","t","p","s",":","/","/">>

\* strings.HasPrefix(name, "http://") || strings.HasPrefix(name, "https://")
LooksLikeURL(name) == HasPrefix(name, HttpPrefix) \/ HasPrefix(name, HttpsPrefix)

\* url.Parse of an http(s) URL of the model's characters: it fails on a
\* space in the host; Path is what follows the host, up to a '#'
URLRest(u) ==
    IF HasPrefix(u, HttpsPrefix)
    THEN SubSeq(u, Len(HttpsPrefix) + 1, Len(u))
    ELSE SubSeq(u, Len(HttpPrefix) + 1, Len(u))

URLHostPath(noFrag, slash) ==
    [ok |-> " " \notin Range(IF slash = {} THEN noFrag
                             ELSE SubSeq(noFrag, 1, Min(slash) - 1)),
     Path |-> IF slash = {} THEN <<>>
              ELSE SubSeq(noFrag, Min(slash), Len(noFrag))]

URLNoFragment(noFrag) == URLHostPath(noFrag, Positions(noFrag, "/"))

URLParse(u) == URLNoFragment(Head(Split(URLRest(u), "#")))

\* getFontNameFromURL: the last path segment without .zip, .ttf, .otf (each
\* trimmed once, in this order). The caller has made sure the URL parses.
LastOf(parts) == parts[Len(parts)]

getFontNameFromURL(urlStr) ==
    TrimSuffix(TrimSuffix(TrimSuffix(LastOf(Split(URLParse(urlStr).Path, "/")),
                                     <<".","z","i","p">>),
                          <<".","t","t","f">>), <<".","o","t","f">>)

\* What the GET of a URL may deliver: a transport error, a status that is
\* not 200, or a body
HttpResults(u) ==
    {[err |-> <<"downloading font">>, data |-> NotAZip],
     [err |-> <<"unexpected status code">>, data |-> NotAZip]}
    \cup {[err |-> NoErr, data |-> b] : b \in NetworkBodies(getFontNameFromURL(u))}

\* The end of an installation, r being what the installer's Install
\* returned for font and data and log the calls made before it: the
\* installer's error, or what UpdateCache returns
AfterInstall(r, log, src, font, data) ==
    IF r.err # NoErr
    THEN {Outcome(r.dirs, r.files, Wrap("installing font", r.err),
                  Append(log, Ev("FontInstaller.Install", src, font, data, r.err)))}
    ELSE {Outcome(r.dirs, r.files, c,
                  log \o <<Ev("FontInstaller.Install", src, font, data, NoErr),
                           Ev("UpdateCache", <<>>, NoFont, NotAZip, c)>>)
            : c \in UpdateFontCacheResults}

\* installFromSource after the Download of font returned dr
AfterDownload(d, f, source, font, dr, t) ==
    IF dr.err # NoErr
    THEN {Outcome(d, f, Wrap("downloading from", dr.err),
                  <<Ev("Search", SourceName(source), NoFont, NotAZip, NoErr),
                    Ev("Download", SourceName(source), font, dr.data, dr.err)>>)}
    ELSE AfterInstall(FontInstallerInstall(d, f, paths.UserDir, font, dr.data, t),
                      <<Ev("Search", SourceName(source), NoFont, NotAZip, NoErr),
                        Ev("Download", SourceName(source), font, dr.data, NoErr)>>,
                      SourceName(source), font, dr.data)

\* installFromSource after Search returned sr: the first candidate is
\* downloaded
AfterSearch(d, f, source, sr, t) ==
    IF sr.err # NoErr
    THEN {Outcome(d, f, Wrap("searching in", sr.err),
                  <<Ev("Search", SourceName(source), NoFont, NotAZip, sr.err)>>)}
    ELSE IF sr.fonts = <<>>
    THEN {Outcome(d, f, <<"font not found in">>,
                  <<Ev("Search", SourceName(source), NoFont, NotAZip, NoErr)>>)}
    ELSE UNION {AfterDownload(d, f, source, sr.fonts[1], dr, t)
                : dr \in DownloadResults(source, sr.fonts[1])}

\* installFromSource: Search, Download of the first candidate, the
\* installer's Install, UpdateCache; every outcome the source, the network
\* and the cache refresh allow
installFromSource(d, f, name, source, t) ==
    UNION {AfterSearch(d, f, source, sr, t) : sr \in SearchResults(source, name)}

\* The loop "try all sources in order": the first source that installs ends
\* it; when none does, the last error is reported, or nil when there is none
RECURSIVE TryAllSources(_, _, _, _, _, _, _, _)
TryAllSources(d, f, name, fontName, srcs, lastErr, log, t) ==
    IF srcs = <<>>
    THEN {Outcome(d, f,
                  IF lastErr # NoErr THEN Wrap("not found in any source", lastErr)
                  ELSE NoErr,
                  log)}
    ELSE UNION {
           IF o.err = NoErr
           THEN {Outcome(o.dirs, o.files, NoErr, log \o o.log)}
           ELSE TryAllSources(o.dirs, o.files, name, fontName, Tail(srcs), o.err,
                              log \o o.log, t)
           : o \in installFromSource(d, f, fontName, Head(srcs), t)}

\* The direct URL installation of Install after the GET returned hr
AfterGet(d, f, name, font, hr, t) ==
    IF hr.err # NoErr
    THEN {Outcome(d, f, hr.err, <<Ev("Get", name, NoFont, hr.data, hr.err)>>)}
    ELSE AfterInstall(FontInstallerInstall(d, f, paths.UserDir, font, hr.data, t),
                      <<Ev("Get", name, NoFont, hr.data, NoErr)>>,
                      <<>>, font, hr.data)

\* The direct URL installation of Install; getFontNameFromURL dereferences
\* the nil URL of a failed url.Parse
InstallURL(d, f, name, t) ==
    IF ~URLParse(name).ok
    THEN {Outcome(d, f, <<"panic: nil pointer dereference">>, <<>>)}
    ELSE UNION {AfterGet(d, f, name,
                         Font(getFontNameFromURL(name), <<"u","r","l">>, name,
                              EmptyMap),
                         hr, t)
                : hr \in HttpResults(name)}

\* An Install that searches all sources when the named one is not registered
InstallFromNamedOrAll(d, f, srcs, fontName, sourceName, t) ==
    IF \A i \in 1..Len(srcs) : SourceName(srcs[i]) # sourceName
    THEN TryAllSources(d, f, fontName, fontName, srcs, NoErr, <<>>, t)
    ELSE installFromSource(d, f, fontName,
                           srcs[Min({i \in 1..Len(srcs) :
                                       SourceName(srcs[i]) = sourceName})], t)

\* Install from the source named sourceName alone: the first registered
\* source of that name
InstallFromNamed(d, f, srcs, fontName, sourceName, t) ==
    IF \A i \in 1..Len(srcs) : SourceName(srcs[i]) # sourceName
    THEN {Outcome(d, f, <<"source not found">>, <<>>)}
    ELSE installFromSource(d, f, fontName,
                           srcs[Min({i \in 1..Len(srcs) :
                                       SourceName(srcs[i]) = sourceName})], t)

\* The part of Install after the already-installed check, for a name that is
\* no URL and splits at '@' into parts: a name with an '@' and a source part
\* goes to that source alone
InstallParts(d, f, srcs, name, parts, t) ==
    IF Len(parts) > 1 /\ TrimSpace(parts[2]) # <<>>
    THEN InstallFromNamed(d, f, srcs, TrimSpace(parts[1]), TrimSpace(parts[2]), t)
    ELSE TryAllSources(d, f, name,
                       IF Len(parts) > 1 THEN TrimSpace(parts[1]) ELSE name,
                       srcs, NoErr, <<>>, t)

InstallByName(d, f, srcs, name, t) ==
    InstallParts(d, f, srcs, name, Split(name, "@"), t)

\* An Install that goes on when the font is installed
InstallUnchecked(installed, d, f, srcs, name, t) ==
    IF installed.err # NoErr
    THEN {Outcome(d, f, Wrap("checking if font is installed", installed.err), <<>>)}
    ELSE IF LooksLikeURL(name)
    THEN InstallURL(d, f, name, t)
    ELSE InstallByName(d, f, srcs, name, t)

\* Install after its call of IsInstalled returned installed
InstallChecked(installed, d, f, srcs, name, t) ==
    IF installed.err # NoErr
    THEN {Outcome(d, f, Wrap("checking if font is installed", installed.err), <<>>)}
    ELSE IF installed.installed
    THEN {Outcome(d, f, <<"already installed">>, <<>>)}
    ELSE IF LooksLikeURL(name)
    THEN InstallURL(d, f, name, t)
    ELSE InstallByName(d, f, srcs, name, t)

\* DefaultManager.Install(name) with the sources srcs at clock value t: the
\* outcomes it may have. l is what List returns when Install is called.
InstallOutcomes(l, d, f, srcs, name, t) ==
    InstallChecked(IsInstalledIn(l, name), d, f, srcs, name, t)

(***************************************************************************)
(* The manager: RegisterSource                                             *)
(***************************************************************************)

\* A RegisterSource that appends whatever it is given
RegisterSourceUnchecked(srcs, source) ==
    [sources |-> Append(srcs, source), err |-> NoErr]

\* DefaultManager.RegisterSource(source): the sources afterwards and the
\* error; a nil source and a source whose name is registered are refused
RegisterSourceResult(srcs, source) ==
    IF source = NilSource
    THEN [sources |-> srcs, err |-> <<"cannot register nil source">>]
    ELSE IF \E i \in 1..Len(srcs) : SourceName(srcs[i]) = SourceName(source)
    THEN [sources |-> srcs, err |-> <<"is already registered">>]
    ELSE [sources |-> Append(srcs, source), err |-> NoErr]

(***************************************************************************)
(* The manager: Uninstall                                                  *)
(***************************************************************************)

\* The path a path string names (the inverse of PathStr)
PathOf(str) == Tail(Split(str, "/"))

\* An Uninstall that returns the error of the cache refresh
RemoveFontDirStrict(d, f, fontDir) ==
    IF ~HasPrefix(fontDir, PathStr(paths.UserDir))
    THEN {Outcome(d, f, <<"cannot uninstall system font">>, <<>>)}
    ELSE {Outcome(RemoveAllDirs(d, PathOf(fontDir)),
                  RemoveAllFiles(f, PathOf(fontDir)),
                  c,
                  <<Ev("RemoveAll", fontDir, NoFont, NotAZip, NoErr),
                    Ev("UpdateCache", <<>>, NoFont, NotAZip, c)>>)
            : c \in UpdateFontCacheResults}

\* Uninstall of the font whose directory is fontDir (Meta["directory"] of the
\* first matching font of List): it is removed when its path string starts
\* with the user directory's; a failed cache refresh is only logged
RemoveFontDir(d, f, fontDir) ==
    IF ~HasPrefix(fontDir, PathStr(paths.UserDir))
    THEN {Outcome(d, f, <<"cannot uninstall system font">>, <<>>)}
    ELSE {Outcome(RemoveAllDirs(d, PathOf(fontDir)),
                  RemoveAllFiles(f, PathOf(fontDir)),
                  NoErr,
                  <<Ev("RemoveAll", fontDir, NoFont, NotAZip, NoErr),
                    Ev("UpdateCache", <<>>, NoFont, NotAZip, c)>>)
            : c \in UpdateFontCacheResults}

\* An Uninstall that refreshes the font cache also when it found no font
UninstallMatchRefreshing(l, i, d, f) ==
    IF i = 0
    THEN {Outcome(d, f, <<"is not installed">>,
                  <<Ev("UpdateCache", <<>>, NoFont, NotAZip, c)>>)
            : c \in UpdateFontCacheResults}
    ELSE RemoveFontDir(d, f, l.fonts[i].Meta["directory"])

\* Uninstall after the loop over the fonts of List found the first match at
\* index i (0: none)
UninstallMatch(l, i, d, f) ==
    IF i = 0
    THEN {Outcome(d, f, <<"is not installed">>, <<>>)}
    ELSE RemoveFontDir(d, f, l.fonts[i].Meta["directory"])

\* DefaultManager.Uninstall(name): the outcomes it may have, l being what
\* its call of List returns
UninstallOutcomes(l, d, f, name) ==
    IF l.err # NoErr
    THEN {Outcome(d, f, Wrap("checking font installation", l.err), <<>>)}
    ELSE UninstallMatch(l, FirstMatch(l.fonts, name), d, f)

(***************************************************************************)
(* The installer: Uninstall                                                *)
(***************************************************************************)

\* FontInstaller.Uninstall(fontName): the font's directory is removed when
\* os.Stat finds it
UninstallAt(d, f, fontPath) ==
    IF fontPath \notin d /\ fontPath \notin DOMAIN f
    THEN [dirs |-> d, files |-> f, err |-> <<"is not installed">>]
    ELSE [dirs |-> RemoveAllDirs(d, fontPath),
          files |-> RemoveAllFiles(f, fontPath), err |-> NoErr]

FontInstallerUninstall(d, f, fontDir, fontName) ==
    UninstallAt(d, f, Join(fontDir, sanitizeFontName(fontName)))

(***************************************************************************)
(* The manager: ParseFontSpec and InstallFromConfig                        *)
(***************************************************************************)

\* ParseFontSpec for a line that is no URL and splits at '@' into parts
ParseNameAtSource(parts) ==
    [font |-> Font(TrimSpace(parts[1]),
                   IF Len(parts) > 1 THEN TrimSpace(parts[2]) ELSE <<>>,
                   <<>>, EmptyMap),
     nil |-> FALSE, err |-> NoErr]

\* ParseFontSpec after strings.TrimSpace
ParseTrimmed(line) ==
    IF line = <<>> \/ HasPrefix(line, <<"#">>)
    THEN [font |-> NoFont, nil |-> TRUE, err |-> NoErr]
    ELSE IF LooksLikeURL(line)
    THEN IF ~URLParse(line).ok
         THEN [font |-> NoFont, nil |-> TRUE, err |-> <<"invalid URL">>]
         ELSE [font |-> Font(getFontNameFromURL(line), <<"u","r","l">>, line,
                             EmptyMap),
               nil |-> FALSE, err |-> NoErr]
    ELSE ParseNameAtSource(Split(line, "@"))

\* ParseFontSpec(line): a font, nil (a blank line or a comment) or an error
ParseFontSpec(line) == ParseTrimmed(TrimSpace(line))

\* An io.Reader: the lines it delivers, and whether it ends with an error
\* (scanner.Err() is then not nil) and not with EOF
Reader(lines, failed) == [lines |-> lines, failed |-> failed]

NoReader == Reader(<<>>, FALSE)

\* The loop of InstallFromConfig over the lines the scanner delivers: the
\* filesystem afterwards, the errors collected and the calls made, for every
\* outcome the Install calls may have. parsed is what ParseFontSpec returned
\* for the first line.
RECURSIVE ScanLines(_, _, _, _, _, _, _)
\* A loop that ends at the first line that fails to parse or to install
ScanParsedUntilError(d, f, srcs, lines, parsed, errors, log, t) ==
    IF parsed.err # NoErr
    THEN {[dirs |-> d, files |-> f, errors |-> Append(errors, parsed.err),
           log |-> Append(log, Ev("ParseFontSpec", Head(lines), NoFont, NotAZip,
                                  parsed.err))]}
    ELSE IF parsed.nil
    THEN ScanLines(d, f, srcs, Tail(lines), errors, log, t)
    ELSE UNION {
           IF o.err # NoErr
           THEN {[dirs |-> o.dirs, files |-> o.files,
                  errors |-> Append(errors, Wrap("failed to install", o.err)),
                  log |-> Append(log, Ev("Manager.Install", Head(lines),
                                         parsed.font, NotAZip, o.err)) \o o.log]}
           ELSE ScanLines(o.dirs, o.files, srcs, Tail(lines), errors,
                          Append(log, Ev("Manager.Install", Head(lines),
                                         parsed.font, NotAZip, o.err)) \o o.log,
                          t)
           : o \in InstallOutcomes(List(d, f), d, f, srcs, parsed.font.Name, t)}

ScanParsed(d, f, srcs, lines, parsed, errors, log, t) ==
    IF parsed.err # NoErr
    THEN ScanLines(d, f, srcs, Tail(lines), Append(errors, parsed.err),
                   Append(log, Ev("ParseFontSpec", Head(lines), NoFont, NotAZip,
                                  parsed.err)),
                   t)
    ELSE IF parsed.nil
    THEN ScanLines(d, f, srcs, Tail(lines), errors, log, t)
    ELSE UNION {
           ScanLines(o.dirs, o.files, srcs, Tail(lines),
                     IF o.err # NoErr
                     THEN Append(errors, Wrap("failed to install", o.err))
                     ELSE errors,
                     Append(log, Ev("Manager.Install", Head(lines), parsed.font,
                                    NotAZip, o.err)) \o o.log,
                     t)
           : o \in InstallOutcomes(List(d, f), d, f, srcs, parsed.font.Name, t)}

ScanLines(d, f, srcs, lines, errors, log, t) ==
    IF lines = <<>>
    THEN {[dirs |-> d, files |-> f, errors |-> errors, log |-> log]}
    ELSE ScanParsed(d, f, srcs, lines, ParseFontSpec(Head(lines)), errors, log, t)

\* The end of InstallFromConfig: the errors collected, with scanner.Err()
\* when the reader failed; an error is returned when there is one
ConfigResult(s, errors) ==
    [dirs |-> s.dirs, files |-> s.files,
     err |-> IF Len(errors) > 0
             THEN <<"encountered errors during installation">>
             ELSE NoErr,
     errors |-> errors, log |-> s.log]

\* DefaultManager.InstallFromConfig(reader): the outcomes it may have
InstallFromConfigOutcomes(d, f, srcs, reader, t) ==
    {ConfigResult(s, IF reader.failed
                     THEN Append(s.errors, <<"error reading config">>)
                     ELSE s.errors)
     : s \in ScanLines(d, f, srcs, reader.lines, <<>>, <<>>, t)}

(***************************************************************************)
(* The command line: fm install name...                                    *)
(***************************************************************************)

AlreadyInstalledWords ==
    <<"a","l","r","e","a","d","y"," ","i","n","s","t","a","l","l","e","d">>

\* strings.Contains
Contains(s, substr) ==
    \E i \in 0..(Len(s) - Len(substr)) : SubSeq(s, i + 1, i + Len(substr)) = substr

\* The verb %q for a text without quotes, backslashes or control characters
Quote(s) == <<"\"">> \o s \o <<"\"">>

\* The text of one message of an error returned by Install(name): the
\* messages that carry the name or a part of it are spelled out, the fixed
\* words of every other message are one element of the text
MessageText(msg, name) ==
    IF msg = "already installed"
    THEN <<"font ">> \o Quote(name) \o <<" is ">> \o AlreadyInstalledWords
    ELSE IF msg = "not found in any source"
    THEN <<"font ">> \o Quote(name) \o <<" not found in any source">>
    ELSE IF msg = "source not found"
    THEN <<"source ">> \o Quote(TrimSpace(Split(name, "@")[2])) \o <<" not found">>
    ELSE <<msg>>

\* err.Error() of an error returned by Install(name): the messages of the
\* chain, each followed by ": " and the text of the error it wraps
RECURSIVE ErrorText(_, _)
ErrorText(err, name) ==
    IF err = NoErr
    THEN <<>>
    ELSE IF Len(err) = 1
    THEN MessageText(Head(err), name)
    ELSE MessageText(Head(err), name) \o <<": ">> \o ErrorText(Tail(err), name)

\* The counters of installCmd
NoSummary == [successful |-> 0, skipped |-> <<>>, failed |-> <<>>]

\* One round of the loop over args: o is the outcome of Install(name)
Tally(s, name, o) ==
    [dirs |-> o.dirs, files |-> o.files,
     successful |-> IF o.err = NoErr THEN s.successful + 1 ELSE s.successful,
     skipped |-> IF /\ o.err # NoErr
                    /\ Contains(ErrorText(o.err, name), AlreadyInstalledWords)
                 THEN Append(s.skipped, name)
                 ELSE s.skipped,
     failed |-> IF /\ o.err # NoErr
                   /\ ~Contains(ErrorText(o.err, name), AlreadyInstalledWords)
                THEN Append(s.failed, name)
                ELSE s.failed,
     log |-> Append(s.log, Ev("Manager.Install", name, NoFont, NotAZip, o.err))
             \o o.log]

\* The loop over args
RECURSIVE InstallArgs(_, _, _, _)
InstallArgs(s, srcs, args, t) ==
    IF args = <<>>
    THEN {s}
    ELSE UNION {InstallArgs(Tally(s, Head(args), o), srcs, Tail(args), t)
                : o \in InstallOutcomes(List(s.dirs, s.files), s.dirs, s.files,
                                        srcs, Head(args), t)}

\* The end of installCmd: an error when a name was counted as failed
CmdResult(s) ==
    [dirs |-> s.dirs, files |-> s.files,
     err |-> IF Len(s.failed) > 0
             THEN <<"some fonts failed to install">>
             ELSE NoErr,
     log |-> s.log,
     summary |-> [successful |-> s.successful, skipped |-> s.skipped,
                  failed |-> s.failed]]

\* installCmd.RunE without the -f flag: the outcomes it may have
installCmdOutcomes(d, f, srcs, args, t) ==
    {CmdResult(s)
     : s \in InstallArgs([dirs |-> d, files |-> f, successful |-> 0,
                          skipped |-> <<>>, failed |-> <<>>, log |-> <<>>],
                         srcs, args, t)}

(***************************************************************************)
(* The model's inputs                                                      *)
(***************************************************************************)

\* The clock values of the model: 0..MaxTime
MaxTime == 2

FontA == <<"A">>
FontM == <<"M">>
FailingFont == <<"F">>

TestSourceName == <<"t","e","s","t","s","o","u","r","c","e">>

\* newMockSource(): a single-format font, a multi-format font and a failing
\* font
TestSource ==
    MockSource(TestSourceName,
               [n \in {FontA, FontM} |->
                   IF n = FontA THEN SingleZip(FontA) ELSE MultiZip(FontM)],
               {FailingFont})

\* The name of a source that is never registered
NoSuchSourceName == <<"n","o","n","e">>

At(name, sourceName) == name \o <<"@">> \o sourceName

URLOfA == HttpPrefix \o <<"h","/","A",".","z","i","p">>

\* The names Install is called with: plain names, name@source (the source
\* registered or not, the font found or failing, the source part empty), a
\* URL
InstallNames ==
    {FontA, FontM, FailingFont,
     At(FontA, TestSourceName), At(FontA, NerdFontsSource.name), URLOfA,
     At(FailingFont, TestSourceName), At(FontA, NoSuchSourceName),
     At(FontA, <<>>), FontA \o <<"#">>}

\* The names Uninstall is called with
UninstallNames == {FontA, FontM}

\* The font paths a platform.Manager returns: the mockPlatform of the tests
\* (<tmp>/user, <tmp>/system), and one whose system directory's path starts
\* with the user directory's path (<tmp>/user, <tmp>/user-sys)
TmpDir == <<"t">>
UserDirName == <<"u","s","e","r">>

MockPlatform ==
    [UserDir |-> <<TmpDir, UserDirName>>,
     SystemDir |-> <<TmpDir, <<"s","y","s","t","e","m">>>>]

SiblingPlatform ==
    [UserDir |-> <<TmpDir, UserDirName>>,
     SystemDir |-> <<TmpDir, UserDirName \o <<"-","s","y","s">>>>]

\* The font directories when the manager starts: both empty; a font A in
\* the system directory; a font A of the user directory with a subdirectory
EmptyFiles == [p \in {} |-> TextFile(<<>>)]

EmptyLayout(fp) ==
    [dirs |-> Ancestors(fp.UserDir) \cup Ancestors(fp.SystemDir),
     files |-> EmptyFiles]

SystemFontLayout(fp) ==
    [dirs |-> Ancestors(fp.UserDir) \cup Ancestors(Append(fp.SystemDir, FontA)),
     files |-> WriteFile(EmptyFiles, fp.SystemDir \o <<FontA, TTF(FontA)>>,
                         TextFile(<<"s">>))]

\* A font A of the user directory with a font file in a subdirectory and one
\* beside it
NestedFontLayout(fp) ==
    [dirs |-> Ancestors(fp.SystemDir) \cup Ancestors(fp.UserDir \o <<FontA, <<"1">>>>),
     files |-> WriteFile(WriteFile(EmptyFiles,
                                   fp.UserDir \o <<FontA, <<"1">>, TTF(FontA)>>,
                                   TextFile(<<"n">>)),
                         fp.UserDir \o <<FontA, TTF(FontA)>>, TextFile(<<"t">>))]

\* A font directory of the user directory named as the URL of A sanitizes
URLNamedLayout(fp) ==
    [dirs |-> Ancestors(fp.SystemDir)
              \cup Ancestors(Append(fp.UserDir, sanitizeFontName(URLOfA))),
     files |-> WriteFile(EmptyFiles,
                         fp.UserDir \o <<sanitizeFontName(URLOfA), TTF(FontA)>>,
                         TextFile(<<"t">>))]

\* The settings a manager starts in: the platform's paths, the directories'
\* contents and the registered sources
World(fp, layout, srcs) == [paths |-> fp, layout |-> layout, sources |-> srcs]

Worlds ==
    {World(MockPlatform, EmptyLayout(MockPlatform), <<>>),
     World(MockPlatform, EmptyLayout(MockPlatform), <<TestSource>>),
     World(MockPlatform, EmptyLayout(MockPlatform), <<TestSource, NerdFontsSource>>),
     World(MockPlatform, SystemFontLayout(MockPlatform), <<TestSource>>),
     World(MockPlatform, NestedFontLayout(MockPlatform), <<TestSource>>),
     World(MockPlatform, URLNamedLayout(MockPlatform), <<TestSource>>),
     World(SiblingPlatform, SystemFontLayout(SiblingPlatform), <<TestSource>>)}

\* The fonts and byte streams FontInstaller.Install is called with: a font
\* with or without a source (one with a leading blank), with or without
\* metadata (with a key "id" and a key "path"), and a font whose name
\* sanitizes to the empty name
SpacedSourceName == <<" ">> \o TestSourceName

MetaIdPath ==
    [k \in {"id", "path"} |-> IF k = "id" THEN <<"1">> ELSE <<"p">>]

UnnamedFont == <<"@">>

InstallerFonts ==
    {Font(FontA, s, <<>>, m) : s \in {<<>>, TestSourceName, SpacedSourceName},
                               m \in {EmptyMap, MetaIdPath}}
    \cup {Font(UnnamedFont, TestSourceName, <<>>, EmptyMap)}

InstallerBodies == {SingleZip(FontA), LicenseZip, NotAZip}

\* The config files InstallFromConfig reads: up to MaxLines lines, each a
\* blank line, a comment, a font the source has, a font whose lookup fails or
\* a URL that does not parse
MaxLines == 2

BlankLine == <<" ">>
CommentLine == <<"#","c">>
BadURLLine == HttpPrefix \o <<"h"," ","h","/","A",".","z","i","p">>

ConfigLines == {BlankLine, CommentLine, FontA, FailingFont, BadURLLine}

ConfigFiles == UNION {[1..n -> ConfigLines] : n \in 0..MaxLines}

\* The other forms of a config line, each read as a config of its own: a
\* URL, name@source for the registered source, and name@source for a source
\* that is not registered
FormLines == {URLOfA, At(FontA, TestSourceName), At(FontA, NoSuchSourceName)}

Readers ==
    {Reader(lines, failed) : lines \in ConfigFiles, failed \in BOOLEAN}
    \cup {Reader(<<line>>, FALSE) : line \in FormLines}

(***************************************************************************)
(* The state machine                                                       *)
(***************************************************************************)

\* The record of an operation: its name, its argument (a name, the reader
\* of InstallFromConfig, the source of RegisterSource or the args of
\* installCmd), what it returned (the error, and the text a function on
\* texts returns), the errors InstallFromConfig collected, the counters of
\* installCmd and the calls made
Op(op, name, reader, o, errors) ==
    [op |-> op, name |-> name, reader |-> reader, source |-> NilSource,
     args |-> <<>>, summary |-> NoSummary, result |-> <<>>,
     err |-> o.err, errors |-> errors, log |-> o.log]

\* No Install call is in progress
NoCalls == <<>>

NoOp ==
    [op |-> "none", name |-> <<>>, reader |-> NoReader, source |-> NilSource,
     args |-> <<>>, summary |-> NoSummary, result |-> <<>>,
     err |-> NoErr, errors |-> <<>>, log |-> <<>>]

Init ==
    /\ \E w \in Worlds :
         /\ paths = w.paths
         /\ dirs = w.layout.dirs
         /\ files = w.layout.files
         /\ sources = w.sources
    /\ now = 0
    /\ last = NoOp
    /\ running = NoCalls

\* A call of DefaultManager.Install
Install ==
    \E l \in {List(dirs, files)} :
      \E name \in InstallNames :
        \E o \in InstallOutcomes(l, dirs, files, sources, name, now) :
          /\ dirs' = o.dirs
          /\ files' = o.files
          /\ last' = Op("Install", name, NoReader, o, <<>>)
          /\ UNCHANGED <<paths, sources, now, running>>

\* A call of DefaultManager.Uninstall
Uninstall ==
    \E l \in {List(dirs, files)} :
      \E name \in UninstallNames :
        \E o \in UninstallOutcomes(l, dirs, files, name) :
          /\ dirs' = o.dirs
          /\ files' = o.files
          /\ last' = Op("Uninstall", name, NoReader, o, <<>>)
          /\ UNCHANGED <<paths, sources, now, running>>

\* The manager: Install and Uninstall in any order, from any of the settings
Next == Install \/ Uninstall

Spec == Init /\ [][Next]_vars

\* Time passes between two operations
Tick ==
    /\ now < MaxTime
    /\ now' = now + 1
    /\ UNCHANGED <<paths, dirs, files, sources, last, running>>

\* What the user directory may hold that the installer did not put there: a
\* directory B with a sidecar and no font file, or a font file B.ttf lying
\* in the user directory itself
FontB == <<"B">>

SidecarOnlyLayout(fp) ==
    [dirs |-> Ancestors(fp.SystemDir) \cup Ancestors(Append(fp.UserDir, FontB)),
     files |-> WriteFile(EmptyFiles, fp.UserDir \o <<FontB, DotSource>>,
                         TextFile(TestSourceName))]

LooseFontLayout(fp) ==
    [dirs |-> Ancestors(fp.UserDir) \cup Ancestors(fp.SystemDir),
     files |-> WriteFile(EmptyFiles, Append(fp.UserDir, TTF(FontB)),
                         TextFile(<<"b">>))]

InstallerLayouts ==
    {EmptyLayout(MockPlatform), SidecarOnlyLayout(MockPlatform),
     LooseFontLayout(MockPlatform)}

\* The installer on its own: a FontInstaller on the user directory of the
\* mockPlatform, the directories empty at the start or holding what the
\* installer did not put there
InitInstaller ==
    /\ paths = MockPlatform
    /\ \E layout \in InstallerLayouts :
         dirs = layout.dirs /\ files = layout.files
    /\ sources = <<>>
    /\ now = 0
    /\ last = NoOp
    /\ running = NoCalls

\* A call of FontInstaller.Install
InstallerInstall ==
    \E font \in InstallerFonts, data \in InstallerBodies :
      \E r \in {FontInstallerInstall(dirs, files, paths.UserDir, font, data, now)} :
        /\ dirs' = r.dirs
        /\ files' = r.files
        /\ last' = Op("FontInstaller.Install", font.Name, NoReader,
                      Outcome(r.dirs, r.files, r.err,
                              <<Ev("FontInstaller.Install", <<>>, font, data,
                                   r.err)>>),
                      <<>>)
        /\ UNCHANGED <<paths, sources, now, running>>

\* A call of FontInstaller.Uninstall
InstallerUninstall ==
    \E r \in {FontInstallerUninstall(dirs, files, paths.UserDir, FontA)} :
      /\ dirs' = r.dirs
      /\ files' = r.files
      /\ last' = Op("FontInstaller.Uninstall", FontA, NoReader,
                    Outcome(r.dirs, r.files, r.err, <<>>), <<>>)
      /\ UNCHANGED <<paths, sources, now, running>>

NextInstaller == InstallerInstall \/ InstallerUninstall \/ Tick

SpecInstaller == InitInstaller /\ [][NextInstaller]_vars

\* Bulk installation: a manager on the mockPlatform with the test source
\* registered, the directories empty at the start
InitConfig ==
    /\ paths = MockPlatform
    /\ dirs = EmptyLayout(MockPlatform).dirs
    /\ files = EmptyFiles
    /\ sources = <<TestSource>>
    /\ now = 0
    /\ last = NoOp
    /\ running = NoCalls

\* A call of DefaultManager.InstallFromConfig
InstallFromConfig ==
    \E reader \in Readers :
      \E o \in InstallFromConfigOutcomes(dirs, files, sources, reader, now) :
        /\ dirs' = o.dirs
        /\ files' = o.files
        /\ last' = Op("InstallFromConfig", <<>>, reader, o, o.errors)
        /\ UNCHANGED <<paths, sources, now, running>>

NextConfig == InstallFromConfig \/ Uninstall

SpecConfig == InitConfig /\ [][NextConfig]_vars

\* The sources RegisterSource is called with: nil, the test source, a second
\* source of the test source's name with other fonts, and a source of
\* another name
SecondSource ==
    MockSource(TestSourceName, [n \in {FontM} |-> MultiZip(FontM)], {})

OtherSource ==
    MockSource(<<"o","t","h","e","r">>, [n \in {FontA} |-> MultiZip(FontA)],
               {FailingFont})

RegisterableSources == {NilSource, TestSource, SecondSource, OtherSource}

\* A manager as NewManagerWithPlatform returns it, on the mockPlatform with
\* empty directories: no source is registered
InitRegister ==
    /\ paths = MockPlatform
    /\ dirs = EmptyLayout(MockPlatform).dirs
    /\ files = EmptyFiles
    /\ sources = <<>>
    /\ now = 0
    /\ last = NoOp
    /\ running = NoCalls

\* A call of DefaultManager.RegisterSource
RegisterSource ==
    \E source \in RegisterableSources :
      \E r \in {RegisterSourceResult(sources, source)} :
        /\ sources' = r.sources
        /\ last' = [Op("RegisterSource", SourceName(source), NoReader,
                       Outcome(dirs, files, r.err, <<>>), <<>>)
                    EXCEPT !.source = source]
        /\ UNCHANGED <<paths, dirs, files, now, running>>

\* The manager with its sources registered one by one between the installs
NextRegister == RegisterSource \/ Install \/ Uninstall

SpecRegister == InitRegister /\ [][NextRegister]_vars

(***************************************************************************)
(* Install step by step: two calls on the same manager, each at its own    *)
(* position between the calls it makes to the filesystem and the network.  *)
(* Nothing in DefaultManager or FontInstaller orders the steps of two      *)
(* calls.                                                                  *)
(***************************************************************************)

CallIds == {1, 2}

\* The name both calls install, and the sources of the manager: the first
\* one's download may fail, the second one holds the font
RaceName == FontA

RaceSources == <<NerdFontsSource, OtherSource>>

\* A call that has not yet made its already-installed check
NewCall ==
    [pc |-> "check", idx |-> 1, font |-> NoFont, data |-> NotAZip,
     todo |-> <<>>, installed |-> FALSE, lastErr |-> NoErr, err |-> NoErr]

\* The call has returned err
Returned(call, err) == [call EXCEPT !.pc = "done", !.err = err]

\* installFromSource returned err: the loop over the sources goes on with
\* the next one
NextSource(call, err) ==
    [call EXCEPT !.pc = "fetch", !.idx = @ + 1, !.lastErr = err,
                 !.todo = <<>>, !.installed = FALSE]

\* The already-installed check of Install, r being what IsInstalled returned
AfterCheck(call, r) ==
    IF r.err # NoErr
    THEN Returned(call, Wrap("checking if font is installed", r.err))
    ELSE IF r.installed
    THEN Returned(call, <<"already installed">>)
    ELSE [call EXCEPT !.pc = "fetch"]

\* Search and Download of the source the loop has reached: the positions
\* the call may have afterwards
AfterFetchDownload(call, font, dr) ==
    IF dr.err # NoErr
    THEN NextSource(call, Wrap("downloading from", dr.err))
    ELSE [call EXCEPT !.pc = "mkdir", !.font = font, !.data = dr.data]

AfterFetchSearch(call, source, sr) ==
    IF sr.err # NoErr
    THEN {NextSource(call, Wrap("searching in", sr.err))}
    ELSE IF sr.fonts = <<>>
    THEN {NextSource(call, <<"font not found in">>)}
    ELSE {AfterFetchDownload(call, sr.fonts[1], dr)
          : dr \in DownloadResults(source, sr.fonts[1])}

FetchResults(call, srcs, name) ==
    IF call.idx > Len(srcs)
    THEN {Returned(call, IF call.lastErr # NoErr
                         THEN Wrap("not found in any source", call.lastErr)
                         ELSE NoErr)}
    ELSE UNION {AfterFetchSearch(call, srcs[call.idx], sr)
                : sr \in SearchResults(srcs[call.idx], name)}

\* The directory FontInstaller.Install of the call's font writes
FontPathOf(call) == Join(paths.UserDir, sanitizeFontName(call.font.Name))

\* FontInstaller.Install returned err to installFromSource
InstallFailed(call, err) == NextSource(call, Wrap("installing font", err))

\* One round of the loop over zipReader.File, r being the result of
\* extracting the entry
AfterExtract(call, r) ==
    IF r.err # NoErr
    THEN InstallFailed(call, r.err)
    ELSE [call EXCEPT !.todo = Tail(@),
                      !.installed = @ \/ isFontFile(Head(call.todo).Name)]

\* The end of the loop over zipReader.File
AfterLoop(call) ==
    IF call.installed
    THEN [call EXCEPT !.pc = "source"]
    ELSE InstallFailed(call, <<"no valid font files found in archive">>)

\* Two Install calls for the same name on a manager with two sources, the
\* directories empty at the start
InitRace ==
    /\ paths = MockPlatform
    /\ dirs = EmptyLayout(MockPlatform).dirs
    /\ files = EmptyFiles
    /\ sources = RaceSources
    /\ now = 0
    /\ last = NoOp
    /\ running = [c \in CallIds |-> NewCall]

\* Install: IsInstalled is asked and the call returns when the font is
\* installed
CheckInstalled ==
    \E c \in CallIds :
      /\ running[c].pc = "check"
      /\ running' = [running EXCEPT
                     ![c] = AfterCheck(@, IsInstalled(dirs, files, RaceName))]
      /\ UNCHANGED <<paths, dirs, files, sources, now, last>>

\* installFromSource: Search and Download, or the end of the loop over the
\* sources
Fetch ==
    \E c \in CallIds :
      /\ running[c].pc = "fetch"
      /\ \E n \in FetchResults(running[c], sources, RaceName) :
           running' = [running EXCEPT ![c] = n]
      /\ UNCHANGED <<paths, dirs, files, sources, now, last>>

\* FontInstaller.Install: MkdirAll of the font directory and zip.NewReader
MakeFontDir ==
    \E c \in CallIds :
      /\ running[c].pc = "mkdir"
      /\ IF \E a \in Ancestors(FontPathOf(running[c])) : a \in DOMAIN files
         THEN /\ dirs' = dirs
              /\ running' = [running EXCEPT
                             ![c] = InstallFailed(@, <<"creating font directory">>)]
         ELSE /\ dirs' = MkdirAll(dirs, FontPathOf(running[c]))
              /\ running' = [running EXCEPT
                             ![c] = IF running[c].data.valid
                                    THEN [@ EXCEPT !.pc = "extract",
                                                   !.todo = running[c].data.File]
                                    ELSE InstallFailed(@, <<"reading zip data">>)]
      /\ UNCHANGED <<paths, files, sources, now, last>>

\* FontInstaller.Install: one round of the loop over zipReader.File, or its
\* end
Extract ==
    \E c \in CallIds :
      /\ running[c].pc = "extract"
      /\ IF running[c].todo = <<>>
         THEN /\ files' = files
              /\ running' = [running EXCEPT ![c] = AfterLoop(@)]
         ELSE IF \/ IsDirEntry(Head(running[c].todo))
                 \/ HasPrefix(Base(Head(running[c].todo).Name), <<".">>)
         THEN /\ files' = files
              /\ running' = [running EXCEPT ![c].todo = Tail(@)]
         ELSE \E r \in {ExtractEntry(dirs, files, Head(running[c].todo),
                                     FontPathOf(running[c]))} :
                /\ files' = r.files
                /\ running' = [running EXCEPT ![c] = AfterExtract(@, r)]
      /\ UNCHANGED <<paths, dirs, sources, now, last>>

\* storeMetadata: the three sidecar files, one os.WriteFile each
StoreSource ==
    \E c \in CallIds :
      /\ running[c].pc = "source"
      /\ files' = WriteSource(files, FontPathOf(running[c]), running[c].font)
      /\ running' = [running EXCEPT ![c].pc = "metadata"]
      /\ UNCHANGED <<paths, dirs, sources, now, last>>

StoreMeta ==
    \E c \in CallIds :
      /\ running[c].pc = "metadata"
      /\ files' = WriteMetadata(files, FontPathOf(running[c]), running[c].font)
      /\ running' = [running EXCEPT ![c].pc = "installed"]
      /\ UNCHANGED <<paths, dirs, sources, now, last>>

StoreInstalled ==
    \E c \in CallIds :
      /\ running[c].pc = "installed"
      /\ files' = WriteInstalled(files, FontPathOf(running[c]), now)
      /\ running' = [running EXCEPT ![c].pc = "cache"]
      /\ UNCHANGED <<paths, dirs, sources, now, last>>

\* installFromSource: UpdateCache, whose error is the error of the source
RefreshCache ==
    \E c \in CallIds :
      /\ running[c].pc = "cache"
      /\ \E e \in UpdateFontCacheResults :
           running' = [running EXCEPT
                       ![c] = IF e = NoErr THEN Returned(@, NoErr)
                              ELSE NextSource(@, e)]
      /\ UNCHANGED <<paths, dirs, files, sources, now, last>>

NextRace ==
    \/ CheckInstalled
    \/ Fetch
    \/ MakeFontDir
    \/ Extract
    \/ StoreSource
    \/ StoreMeta
    \/ StoreInstalled
    \/ RefreshCache
    \/ Tick

SpecRace == InitRace /\ [][NextRace]_vars

(***************************************************************************)
(* The command line: fm install with one or more names                     *)
(***************************************************************************)

\* The most names on one command line
MaxArgs == 2

\* The names on the command line: two fonts of the test source, a font
\* whose Search fails, a font no source has, and a font asked from a source
\* that is not registered
CmdNames ==
    {FontA, FontM, FailingFont, FontB, At(FontA, AlreadyInstalledWords)}

\* cobra's Args check refuses an empty command line
ArgLists == UNION {[1..n -> CmdNames] : n \in 1..MaxArgs}

\* A run of installCmd
InstallCmd ==
    \E args \in ArgLists :
      \E o \in installCmdOutcomes(dirs, files, sources, args, now) :
        /\ dirs' = o.dirs
        /\ files' = o.files
        /\ last' = [Op("installCmd", <<>>, NoReader, o, <<>>)
                      EXCEPT !.args = args, !.summary = o.summary]
        /\ UNCHANGED <<paths, sources, now, running>>

NextCmd == InstallCmd \/ Uninstall

SpecCmd == InitConfig /\ [][NextCmd]_vars

(***************************************************************************)
(* The platform: linuxManager.GetFontPaths and darwinManager.GetFontPaths  *)
(***************************************************************************)

\* FontPaths{}
NoPaths == [UserDir |-> <<>>, SystemDir |-> <<>>]

\* The paths of the two platform variants for the home directory homeDir
LinuxPaths(homeDir) ==
    [UserDir |-> homeDir \o <<<<".","l","o","c","a","l">>, <<"s","h","a","r","e">>,
                              <<"f","o","n","t","s">>>>,
     SystemDir |-> <<<<"u","s","r">>, <<"l","o","c","a","l">>,
                     <<"s","h","a","r","e">>, <<"f","o","n","t","s">>>>]

DarwinPaths(homeDir) ==
    [UserDir |-> homeDir \o <<<<"L","i","b","r","a","r","y">>, <<"F","o","n","t","s">>>>,
     SystemDir |-> <<<<"L","i","b","r","a","r","y">>, <<"F","o","n","t","s">>>>]

PlatformPaths(goos, homeDir) ==
    IF goos = "darwin" THEN DarwinPaths(homeDir) ELSE LinuxPaths(homeDir)

\* os.MkdirAll(dir) with its failures: nil when dir is a directory; an
\* error when a regular file is in the way; otherwise the missing
\* directories are made one after the other, parents first, and any Mkdir
\* may be refused
MkdirAllResults(d, f, dir) ==
    IF dir \in d
    THEN {[dirs |-> d, err |-> NoErr]}
    ELSE IF \E a \in Ancestors(dir) : a \in DOMAIN f
    THEN {[dirs |-> d, err |-> <<"not a directory">>]}
    ELSE {[dirs |-> MkdirAll(d, dir), err |-> NoErr]}
         \cup {[dirs |-> d \cup {a \in Ancestors(dir) : Len(a) < k},
                err |-> <<"permission denied">>]
               : k \in {Len(a) : a \in Ancestors(dir) \ d}}

\* A GetFontPaths that returns the paths whatever os.MkdirAll returned
GetFontPathsUnchecked(d, f, goos, home) ==
    IF home = <<>>
    THEN {[paths |-> NoPaths, dirs |-> d,
           err |-> <<"getting user home directory">>]}
    ELSE {[paths |-> PlatformPaths(goos, home), dirs |-> r.dirs, err |-> NoErr]
          : r \in MkdirAllResults(d, f, PlatformPaths(goos, home).UserDir)}

\* GetFontPaths of the platform variant goos, home being $HOME (empty: not
\* defined, os.UserHomeDir fails): the paths and the error returned, and
\* the directories afterwards
GetFontPathsResults(d, f, goos, home) ==
    IF home = <<>>
    THEN {[paths |-> NoPaths, dirs |-> d,
           err |-> <<"getting user home directory">>]}
    ELSE {IF r.err # NoErr
          THEN [paths |-> NoPaths, dirs |-> r.dirs,
                err |-> Wrap("creating user fonts directory", r.err)]
          ELSE [paths |-> PlatformPaths(goos, home), dirs |-> r.dirs,
                err |-> NoErr]
          : r \in MkdirAllResults(d, f, PlatformPaths(goos, home).UserDir)}

\* The home directories of the model, the empty one standing for a $HOME
\* that is not defined
HomeU == <<<<"h">>, <<"u">>>>
HomeV == <<<<"h">>, <<"v">>>>

Homes == {<<>>, HomeU, HomeV}

\* What is there before the first call: nothing; the home directories;
\* a regular file where a directory of the user font path has to be
HomesLayout ==
    [dirs |-> Ancestors(HomeU) \cup Ancestors(HomeV), files |-> EmptyFiles]

FileInTheWayLayout ==
    [dirs |-> Ancestors(HomeU) \cup Ancestors(HomeV),
     files |-> WriteFile(WriteFile(EmptyFiles,
                                   SubSeq(LinuxPaths(HomeU).UserDir, 1, 3),
                                   TextFile(<<>>)),
                         DarwinPaths(HomeV).UserDir, TextFile(<<>>))]

PlatformLayouts ==
    {[dirs |-> {}, files |-> EmptyFiles], HomesLayout, FileInTheWayLayout}

InitPlatform ==
    /\ paths = NoPaths
    /\ \E layout \in PlatformLayouts :
         dirs = layout.dirs /\ files = layout.files
    /\ sources = <<>>
    /\ now = 0
    /\ last = NoOp
    /\ running = NoCalls

\* A call of GetFontPaths on one of the platform variants
GetFontPaths ==
    \E goos \in {"linux", "darwin"}, home \in Homes :
      \E r \in GetFontPathsResults(dirs, files, goos, home) :
        /\ paths' = r.paths
        /\ dirs' = r.dirs
        /\ last' = Op("GetFontPaths", PathStr(PlatformPaths(goos, home).UserDir),
                      NoReader, Outcome(r.dirs, files, r.err, <<>>), <<>>)
        /\ UNCHANGED <<files, sources, now, running>>

NextPlatform == GetFontPaths

SpecPlatform == InitPlatform /\ [][NextPlatform]_vars

(***************************************************************************)
(* The installer and the entries of an archive                             *)
(***************************************************************************)

\* An archive with a directory entry, a font file below it with an upper
\* case extension, a hidden font file, a file that is no font, a license in
\* lower case below the directory, and font files whose names lead out of
\* the directory or begin at the root
NestedZip ==
    Zip(<<ZipEntry(<<"d","/">>, <<>>),
          ZipEntry(<<"d","/","B",".","T","T","F">>, <<"b">>),
          ZipEntry(<<".","h",".","t","t","f">>, <<"h">>),
          ZipEntry(<<"R",".","t","x","t">>, <<"r">>),
          ZipEntry(<<"d","/","l","i","c","e","n","s","e">>, <<"l">>),
          ZipEntry(<<".",".","/","C",".","o","t","f">>, <<"c">>),
          ZipEntry(<<"/","e","/","D",".","t","t","f">>, <<"d">>)>>)

\* An archive without a font file: a hidden font file and a file that is no
\* font
NoFontZip ==
    Zip(<<ZipEntry(<<".","h",".","t","t","f">>, <<"h">>), ZipEntry(<<"R",".","t","x","t">>, <<"r">>)>>)

Archives == {SingleZip(FontA), NestedZip, NoFontZip, LicenseZip}

\* The fonts the archives are installed as: A, B, a name with a path that
\* sanitizes to B, and a name that sanitizes to the empty name
ArchiveFonts ==
    {Font(FontA, TestSourceName, <<>>, EmptyMap),
     Font(FontB, <<>>, <<>>, EmptyMap),
     Font(<<".",".","/","B">>, TestSourceName, <<>>, EmptyMap),
     Font(UnnamedFont, <<>>, <<>>, EmptyMap)}

\* A call of FontInstaller.Install with one of the archives
InstallArchive ==
    \E font \in ArchiveFonts, data \in Archives :
      \E r \in {FontInstallerInstall(dirs, files, paths.UserDir, font, data, now)} :
        /\ dirs' = r.dirs
        /\ files' = r.files
        /\ last' = Op("FontInstaller.Install", font.Name, NoReader,
                      Outcome(r.dirs, r.files, r.err,
                              <<Ev("FontInstaller.Install", <<>>, font, data,
                                   r.err)>>),
                      <<>>)
        /\ UNCHANGED <<paths, sources, now, running>>

\* A call of FontInstaller.Uninstall of one of the fonts
UninstallArchive ==
    \E font \in ArchiveFonts :
      \E r \in {FontInstallerUninstall(dirs, files, paths.UserDir, font.Name)} :
        /\ dirs' = r.dirs
        /\ files' = r.files
        /\ last' = Op("FontInstaller.Uninstall", font.Name, NoReader,
                      Outcome(r.dirs, r.files, r.err, <<>>), <<>>)
        /\ UNCHANGED <<paths, sources, now, running>>

\* A FontInstaller on the user directory of the mockPlatform, the
\* directories empty at the start
InitExtract ==
    /\ paths = MockPlatform
    /\ dirs = EmptyLayout(MockPlatform).dirs
    /\ files = EmptyFiles
    /\ sources = <<>>
    /\ now = 0
    /\ last = NoOp
    /\ running = NoCalls

NextExtract == InstallArchive \/ UninstallArchive

SpecExtract == InitExtract /\ [][NextExtract]_vars

(***************************************************************************)
(* sanitizeFontName on its own                                             *)
(***************************************************************************)

\* The longest name sanitizeFontName is called with
MaxNameLen == 4

\* The characters of the names: a letter of each case, a digit, the two
\* signs that are kept, and a blank and a slash
NameChars == {"a", "Z", "0", "-", "_", " ", "/"}

Names == UNION {[1..n -> NameChars] : n \in 0..MaxNameLen}

InitSanitize ==
    /\ paths = MockPlatform
    /\ dirs = EmptyLayout(MockPlatform).dirs
    /\ files = EmptyFiles
    /\ sources = <<>>
    /\ now = 0
    /\ \E name \in Names : last = [NoOp EXCEPT !.name = name]
    /\ running = NoCalls

\* sanitizeFontName of the name
Sanitize ==
    /\ last.op = "none"
    /\ last' = [NoOp EXCEPT !.op = "sanitizeFontName", !.name = last.name,
                            !.result = sanitizeFontName(last.name)]
    /\ UNCHANGED <<paths, dirs, files, sources, now, running>>

\* sanitizeFontName of what sanitizeFontName returned
SanitizeAgain ==
    /\ last.op = "sanitizeFontName"
    /\ last' = [NoOp EXCEPT !.op = "sanitizeFontName", !.name = last.result,
                            !.result = sanitizeFontName(last.result)]
    /\ UNCHANGED <<paths, dirs, files, sources, now, running>>

NextSanitize == Sanitize \/ SanitizeAgain

SpecSanitize == InitSanitize /\ [][NextSanitize]_vars

(***************************************************************************)
(* The manager on a user directory that holds a font file of its own       *)
(***************************************************************************)

\* A font file M.ttf lying in the user directory itself, beside the
\* directory of the font A
LooseBesideFontLayout(fp) ==
    [dirs |-> Ancestors(fp.SystemDir) \cup Ancestors(Append(fp.UserDir, FontA)),
     files |-> WriteFile(WriteFile(EmptyFiles, Append(fp.UserDir, TTF(FontM)),
                                   TextFile(<<"m">>)),
                         fp.UserDir \o <<FontA, TTF(FontA)>>, TextFile(<<"t">>))]

FrameWorlds ==
    {World(MockPlatform, LooseBesideFontLayout(MockPlatform), <<TestSource>>),
     World(MockPlatform, NestedFontLayout(MockPlatform), <<TestSource>>),
     World(MockPlatform, EmptyLayout(MockPlatform), <<TestSource>>)}

InitFrame ==
    /\ \E w \in FrameWorlds :
         /\ paths = w.paths
         /\ dirs = w.layout.dirs
         /\ files = w.layout.files
         /\ sources = w.sources
    /\ now = 0
    /\ last = NoOp
    /\ running = NoCalls

SpecFrame == InitFrame /\ [][Next]_vars

(***************************************************************************)
(* The manager on directories whose .metadata files name a path and a      *)
(* directory of their own                                                  *)
(***************************************************************************)

\* Metadata with the keys List derives itself: the path of another font's
\* file and that font's directory
MetaElsewhere ==
    [k \in {"path", "directory"} |->
        IF k = "path"
        THEN PathStr(MockPlatform.UserDir \o <<FontM, TTF(FontM)>>)
        ELSE PathStr(Append(MockPlatform.UserDir, FontM))]

\* Font A with or without such metadata, and font M without
MetaFonts ==
    {Font(FontA, TestSourceName, <<>>, m) : m \in {EmptyMap, MetaIdPath, MetaElsewhere}}
    \cup {Font(FontM, <<>>, <<>>, EmptyMap)}

MetaBodies == {SingleZip(FontA), SingleZip(FontM)}

\* A call of FontInstaller.Install with a descriptor whose metadata is
\* written to .metadata
InstallWithMetadata ==
    \E font \in MetaFonts, data \in MetaBodies :
      \E r \in {FontInstallerInstall(dirs, files, paths.UserDir, font, data, now)} :
        /\ dirs' = r.dirs
        /\ files' = r.files
        /\ last' = Op("FontInstaller.Install", font.Name, NoReader,
                      Outcome(r.dirs, r.files, r.err,
                              <<Ev("FontInstaller.Install", <<>>, font, data,
                                   r.err)>>),
                      <<>>)
        /\ UNCHANGED <<paths, sources, now, running>>

\* A manager on the mockPlatform, the directories empty at the start
InitMeta ==
    /\ paths = MockPlatform
    /\ dirs = EmptyLayout(MockPlatform).dirs
    /\ files = EmptyFiles
    /\ sources = <<TestSource>>
    /\ now = 0
    /\ last = NoOp
    /\ running = NoCalls

NextMeta == InstallWithMetadata \/ Uninstall

SpecMeta == InitMeta /\ [][NextMeta]_vars

(***************************************************************************)
(* Bulk installation run again: InstallFromConfig with the test source and *)
(* NerdFontsSource registered                                              *)
(***************************************************************************)

\* A font name with a space, as the NerdFonts are commonly written
SpacedName == <<"A"," ","B">>

RepeatLines == {FontA, SpacedName, CommentLine}

RepeatReaders ==
    {Reader(lines, FALSE) :
       lines \in UNION {[1..n -> RepeatLines] : n \in 1..MaxLines}}

\* A manager on the mockPlatform with the test source and NerdFontsSource
\* registered in this order, the directories empty at the start
InitRepeat ==
    /\ paths = MockPlatform
    /\ dirs = EmptyLayout(MockPlatform).dirs
    /\ files = EmptyFiles
    /\ sources = <<TestSource, NerdFontsSource>>
    /\ now = 0
    /\ last = NoOp
    /\ running = NoCalls

\* A call of DefaultManager.InstallFromConfig on one of the configs
InstallFromConfigFile ==
    \E reader \in RepeatReaders :
      \E o \in InstallFromConfigOutcomes(dirs, files, sources, reader, now) :
        /\ dirs' = o.dirs
        /\ files' = o.files
        /\ last' = Op("InstallFromConfig", <<>>, reader, o, o.errors)
        /\ UNCHANGED <<paths, sources, now, running>>

NextRepeat == InstallFromConfigFile \/ Uninstall \/ Tick

SpecRepeat == InitRepeat /\ [][NextRepeat]_vars

(***************************************************************************)
(* The manager when a font directory cannot be walked                      *)
(***************************************************************************)

\* The system directory is missing; the user directory is missing while the
\* system directory holds the font A; both are missing
MissingSystemLayout(fp) ==
    [dirs |-> Ancestors(fp.UserDir), files |-> EmptyFiles]

MissingUserLayout(fp) ==
    [dirs |-> Ancestors(Append(fp.SystemDir, FontA)),
     files |-> WriteFile(EmptyFiles, fp.SystemDir \o <<FontA, TTF(FontA)>>,
                         TextFile(<<"s">>))]

NoDirectoriesLayout(fp) ==
    [dirs |-> Ancestors(Dir(fp.UserDir)), files |-> EmptyFiles]

WalkWorlds ==
    {World(MockPlatform, MissingSystemLayout(MockPlatform), <<TestSource>>),
     World(MockPlatform, MissingUserLayout(MockPlatform), <<TestSource>>),
     World(MockPlatform, NoDirectoriesLayout(MockPlatform), <<TestSource>>),
     World(MockPlatform, LooseBesideFontLayout(MockPlatform), <<TestSource>>)}

InitWalk ==
    /\ \E w \in WalkWorlds :
         /\ paths = w.paths
         /\ dirs = w.layout.dirs
         /\ files = w.layout.files
         /\ sources = w.sources
    /\ now = 0
    /\ last = NoOp
    /\ running = NoCalls

SpecWalk == InitWalk /\ [][Next]_vars

(***************************************************************************)
(* The platform: linuxManager.UpdateFontCache, in the two versions of the  *)
(* file                                                                    *)
(***************************************************************************)

FcCache == <<"f","c","-","c","a","c","h","e">>
Sudo == <<"s","u","d","o">>

\* What cmd.CombinedOutput() may return for a command: nil or an error
CommandResults == {NoErr, <<"exit status">>}

\* runCommand(name, args...) when the command returns e
runCommand(name, e) ==
    Ev("runCommand", name, NoFont, NotAZip,
       IF e = NoErr THEN NoErr ELSE Wrap("running", e))

\* os.Geteuid(): root or another user
Root == <<"0">>
Euids == {Root, <<"1","0","0","0">>}

Geteuid(euid) == Ev("Geteuid", euid, NoFont, NotAZip, NoErr)

\* hasSudo(): exec.LookPath("sudo") finds sudo or does not
LookPath(found) ==
    Ev("LookPath", Sudo, NoFont, NotAZip,
       IF found THEN NoErr ELSE <<"executable file not found">>)

\* The versions of UpdateFontCache: the one that runs sudo at once and the
\* one that looks for sudo first
Versions == {"runs sudo", "looks for sudo"}

\* UpdateFontCache after fc-cache failed for a user who is not root
WithSudo(version, log, found, sudo) ==
    IF version = "looks for sudo" /\ ~found
    THEN [err |-> <<"font cache update failed">>, log |-> Append(log, LookPath(found))]
    ELSE [err |-> IF sudo = NoErr THEN NoErr
                  ELSE Wrap(IF version = "looks for sudo"
                            THEN "updating font cache with elevated privileges"
                            ELSE "updating font cache",
                            runCommand(Sudo, sudo).err),
          log |-> (IF version = "looks for sudo"
                   THEN Append(log, LookPath(found)) ELSE log)
                  \o <<runCommand(Sudo, sudo)>>]

\* linuxManager.UpdateFontCache(): fc-cache returns fc, the process runs as
\* euid, sudo is found or not and sudo fc-cache returns sudo
LinuxUpdateFontCache(version, fc, euid, found, sudo) ==
    IF fc = NoErr
    THEN [err |-> NoErr, log |-> <<runCommand(FcCache, fc)>>]
    ELSE IF euid # Root
    THEN WithSudo(version, <<runCommand(FcCache, fc), Geteuid(euid)>>, found, sudo)
    ELSE [err |-> NoErr, log |-> <<runCommand(FcCache, fc), Geteuid(euid)>>]

\* A call of linuxManager.UpdateFontCache
UpdateFontCache ==
    \E version \in Versions, fc \in CommandResults, euid \in Euids,
       found \in BOOLEAN, sudo \in CommandResults :
      \E r \in {LinuxUpdateFontCache(version, fc, euid, found, sudo)} :
        /\ last' = Op("UpdateFontCache", <<>>, NoReader,
                      Outcome(dirs, files, r.err, r.log), <<>>)
        /\ UNCHANGED <<paths, dirs, files, sources, now, running>>

\* The platform manager of Linux: its two methods in any order
NextCache == GetFontPaths \/ UpdateFontCache

SpecCache == InitPlatform /\ [][NextCache]_vars

(***************************************************************************)
(* Properties of the manager: Install, Uninstall, List                     *)
(***************************************************************************)

\* Some entry of the list l has a name that sanitizes to sanitize(name)
ListsName(l, name) ==
    \E i \in 1..Len(l.fonts) :
      sanitizeFontName(l.fonts[i].Name) = sanitizeFontName(name)

\* No two entries of the list l have the same Name
NamesDistinct(l) ==
    \A i, j \in 1..Len(l.fonts) : l.fonts[i].Name = l.fonts[j].Name => i = j

\* The font files below dir
FontFilesUnder(f, dir) ==
    {p \in DOMAIN f : IsUnder(p, dir) /\ Len(p) > Len(dir) /\ isFontFile(p[Len(p)])}

\* C1: whenever Install(n) returns success, an IsInstalled(n) right after it
\* returns true and List holds an entry whose name sanitizes to sanitize(n)
C1_InstalledAfterInstall ==
    (last.op = "Install" /\ last.err = NoErr) =>
        /\ IsInstalled(dirs, files, last.name).installed
        /\ ListsName(List(dirs, files), last.name)

\* C2: when Install(n) has succeeded and Install(n) is called again with no
\* operation in between, the second call fails with "already installed" and
\* leaves the filesystem as the first call left it
C2_SecondInstallRefused ==
    [][(/\ last.op = "Install" /\ last.err = NoErr
        /\ last'.op = "Install" /\ last'.name = last.name /\ now' = now)
       => (/\ last'.err = <<"already installed">>
           /\ dirs' = dirs
           /\ files' = files)]_vars

\* C3: whenever Uninstall(n) returns success, an IsInstalled(n) right after
\* it returns false
C3_NotInstalledAfterUninstall ==
    (last.op = "Uninstall" /\ last.err = NoErr) =>
        ~IsInstalled(dirs, files, last.name).installed

\* The font Uninstall(name) resolves in the list l lies outside the user
\* directory
ResolvesOutsideUserDir(l, name) ==
    \E i \in {FirstMatch(l.fonts, name)} :
      /\ i # 0
      /\ ~IsUnder(PathOf(l.fonts[i].Meta["directory"]), paths.UserDir)

\* C4: Uninstall(n) removes only directories and files below the user font
\* directory; when the font resolved for n lies outside the user directory
\* it fails with the protection error and removes nothing
C4_UninstallOnlyBelowUserDir ==
    [][(last'.op = "Uninstall" /\ now' = now) =>
         /\ \A p \in dirs \ dirs' :
              IsUnder(p, paths.UserDir) /\ Len(p) > Len(paths.UserDir)
         /\ \A p \in (DOMAIN files) \ (DOMAIN files') : IsUnder(p, paths.UserDir)
         /\ ResolvesOutsideUserDir(List(dirs, files), last'.name) =>
              /\ last'.err = <<"cannot uninstall system font">>
              /\ dirs' = dirs
              /\ files' = files]_vars

\* C5: Uninstall(n), when no entry of List has a name that sanitizes to
\* sanitize(n), fails with "not installed", removes nothing and does not
\* refresh the font cache
C5_UninstallOfUnlistedFails ==
    [][(/\ last'.op = "Uninstall" /\ now' = now
        /\ List(dirs, files).err = NoErr
        /\ ~ListsName(List(dirs, files), last'.name))
       => (/\ last'.err = <<"is not installed">>
           /\ dirs' = dirs
           /\ files' = files
           /\ \A i \in 1..Len(last'.log) : last'.log[i].ev # "UpdateCache")]_vars

\* An Uninstall of a font that is not listed has failed, beside a font that
\* is listed
C5_Witness ==
    /\ last.op = "Uninstall"
    /\ last.err = <<"is not installed">>
    /\ ~ListsName(List(dirs, files), last.name)
    /\ Len(List(dirs, files).fonts) > 0

\* The font files of the archives that the installer's successful Install
\* calls of the last operation extracted are in the font's directory
ArchiveFilesPresent ==
    \A i \in 1..Len(last.log) :
      (last.log[i].ev = "FontInstaller.Install" /\ last.log[i].err = NoErr) =>
        \A k \in 1..Len(last.log[i].data.File) :
          isFontFile(last.log[i].data.File[k].Name) =>
            Join(Join(paths.UserDir, sanitizeFontName(last.log[i].font.Name)),
                 Base(last.log[i].data.File[k].Name)) \in DOMAIN files

\* The names of the font directories of the user directory that hold a font
\* file
InstalledFontDirs ==
    {p[Len(paths.UserDir) + 1] : p \in FontFilesUnder(files, paths.UserDir)}

\* C7: with no font in the system directory, List returns exactly one entry
\* per font directory of the user directory that holds font files, however
\* many it holds; an installed archive with Name.ttf and Name.otf leaves both
\* files in the font directory
C7_OneEntryPerInstalledFont ==
    FontFilesUnder(files, paths.SystemDir) = {} =>
        /\ NamesDistinct(List(dirs, files))
        /\ {List(dirs, files).fonts[i].Name : i \in 1..Len(List(dirs, files).fonts)}
             = InstalledFontDirs
        /\ ArchiveFilesPresent

\* Two fonts are installed in the user directory, one of them from an
\* archive with a .ttf and an .otf file, installed by the last operation
C7_Witness ==
    /\ FontFilesUnder(files, paths.SystemDir) = {}
    /\ last.op = "Install" /\ last.name = FontM /\ last.err = NoErr
    /\ Len(List(dirs, files).fonts) = 2
    /\ paths.UserDir \o <<FontM, TTF(FontM)>> \in DOMAIN files
    /\ paths.UserDir \o <<FontM, OTF(FontM)>> \in DOMAIN files

\* C8: List never returns two entries with the same Name; of a font that is
\* in the user and in the system directory it returns the user copy
C8_ListNamesUnique ==
    /\ NamesDistinct(List(dirs, files))
    /\ \A i \in 1..Len(List(dirs, files).fonts) :
         (\E p \in FontFilesUnder(files, paths.UserDir) :
            p[Len(paths.UserDir) + 1] = List(dirs, files).fonts[i].Name)
         => IsUnder(PathOf(List(dirs, files).fonts[i].Meta["directory"]),
                    paths.UserDir)

(***************************************************************************)
(* Properties of the installer: FontInstaller.Install                      *)
(***************************************************************************)

\* A valid zip archive without a .ttf/.otf entry
ArchiveWithoutFonts(data) ==
    data.valid /\ \A k \in 1..Len(data.File) : ~isFontFile(data.File[k].Name)

\* The sidecar files with their contents
Sidecars(f) ==
    [p \in {q \in DOMAIN f : q[Len(q)] \in {DotSource, DotMetadata, DotInstalled}}
       |-> f[p]]

\* The LICENSE entries of the archive are in the directory fontPath
LicensesPresent(f, data, fontPath) ==
    \A k \in 1..Len(data.File) :
      EqualFold(Base(data.File[k].Name), LICENSE) =>
        Join(fontPath, Base(data.File[k].Name)) \in DOMAIN f

\* A step is a call of FontInstaller.Install with a valid archive that has
\* no font file
InstallsArchiveWithoutFonts ==
    /\ last'.op = "FontInstaller.Install"
    /\ now' = now
    /\ ArchiveWithoutFonts(last'.log[1].data)

\* What the call leaves: the error, the font's directory with the LICENSE,
\* and the sidecars as they were
FailsWithoutSidecars ==
    /\ last'.err = <<"no valid font files found in archive">>
    /\ Join(paths.UserDir, sanitizeFontName(last'.name)) \in dirs'
    /\ LicensesPresent(files', last'.log[1].data,
                       Join(paths.UserDir, sanitizeFontName(last'.name)))
    /\ Sidecars(files') = Sidecars(files)

\* C6 as stated: installing a valid zip without a .ttf/.otf entry (for a
\* name that sanitizes to a directory name) fails with "no valid font files
\* found"; afterwards the font's directory exists with the LICENSE, the call
\* wrote no sidecar, and IsInstalled for the font is false
C6_NotInstalledAfterFailure ==
    [][(InstallsArchiveWithoutFonts /\ sanitizeFontName(last'.name) # <<>>) =>
         /\ FailsWithoutSidecars
         /\ ~FontInstallerIsInstalled(dirs', files', paths.UserDir, last'.name)
         /\ ~IsInstalled(dirs', files', last'.name).installed]_vars

\* C6: installing a valid zip without a .ttf/.otf entry fails with "no valid
\* font files found"; afterwards the font's directory exists with the
\* LICENSE, the call wrote no sidecar, and IsInstalled for the font is what
\* it was before the call (false when the directory held no font file)
C6_InstalledUnchangedByFailure ==
    [][InstallsArchiveWithoutFonts =>
         /\ FailsWithoutSidecars
         /\ FontInstallerIsInstalled(dirs', files', paths.UserDir, last'.name)
              = FontInstallerIsInstalled(dirs, files, paths.UserDir, last'.name)
         /\ IsInstalled(dirs', files', last'.name).installed
              = IsInstalled(dirs, files, last'.name).installed]_vars

\* A license-only archive was installed for a font that is not installed:
\* the call failed, the LICENSE is there, the font is not installed
C6_Witness ==
    /\ last.op = "FontInstaller.Install"
    /\ last.name = FontA
    /\ last.log[1].data = LicenseZip
    /\ last.err = <<"no valid font files found in archive">>
    /\ paths.UserDir \o <<FontA, LICENSE>> \in DOMAIN files
    /\ ~FontInstallerIsInstalled(dirs, files, paths.UserDir, FontA)

\* The last operation is a successful FontInstaller.Install of a font with a
\* Source
InstalledWithSource ==
    /\ last.op = "FontInstaller.Install"
    /\ last.err = NoErr
    /\ last.log[1].font.Source # <<>>

\* The entry List returns for the font installed last (the first whose name
\* sanitizes to the font's sanitized name) satisfies P
ListedEntry(P(_, _)) ==
    \E i \in {FirstMatch(List(dirs, files).fonts, last.name)} :
      i # 0 /\ P(List(dirs, files).fonts[i], last.log[1].font)

\* The entry e has the Source and every Meta key of the descriptor font,
\* and the keys path and directory
RoundTripsExactly(e, font) ==
    /\ e.Source = font.Source
    /\ \A k \in DOMAIN font.Meta : k \in DOMAIN e.Meta /\ e.Meta[k] = font.Meta[k]
    /\ {"path", "directory"} \subseteq DOMAIN e.Meta

\* The entry e has the trimmed Source of the descriptor font, its Meta keys
\* other than path and directory, and in path and directory a font file of
\* the font's directory and that directory
RoundTripsTrimmed(e, font) ==
    /\ e.Source = TrimSpace(font.Source)
    /\ \A k \in (DOMAIN font.Meta) \ {"path", "directory"} :
         k \in DOMAIN e.Meta /\ e.Meta[k] = font.Meta[k]
    /\ {"path", "directory"} \subseteq DOMAIN e.Meta
    /\ e.Meta["directory"]
         = PathStr(Join(paths.UserDir, sanitizeFontName(font.Name)))
    /\ \E p \in FontFilesUnder(files, Join(paths.UserDir, sanitizeFontName(font.Name))) :
         e.Meta["path"] = PathStr(p)

\* C9 as stated: after a successful install of a descriptor with Source s
\* and metadata M (for a name that sanitizes to a directory name), the
\* font's entry of List has Source = s and Meta[k] = M[k] for every key k of
\* M, and the keys path and directory
C9_ProvenanceRoundTrip ==
    (InstalledWithSource /\ sanitizeFontName(last.name) # <<>>)
        => ListedEntry(RoundTripsExactly)

\* C9: after a successful install of a descriptor with Source s and metadata
\* M, for a name that sanitizes to a directory name, the font's entry of List
\* has Source = s without leading and trailing white space and Meta[k] = M[k]
\* for every key k of M but path and directory, which hold the listed font
\* file and its directory
C9_ProvenanceRoundTripTrimmed ==
    (InstalledWithSource /\ sanitizeFontName(last.name) # <<>>)
        => ListedEntry(RoundTripsTrimmed)

\* A font was installed with a Source that starts with a blank and with
\* metadata holding a key path
C9_Witness ==
    /\ InstalledWithSource
    /\ last.name = FontA
    /\ last.log[1].font.Source = SpacedSourceName
    /\ last.log[1].font.Meta = MetaIdPath
    /\ ListedEntry(RoundTripsTrimmed)

(***************************************************************************)
(* Properties of the manager: InstallFromConfig                            *)
(***************************************************************************)

\* A line that is neither blank nor a comment
IsEntryLine(line) == TrimSpace(line) # <<>> /\ TrimSpace(line)[1] # "#"

\* The attempts of InstallFromConfig: a ParseFontSpec that failed, or a call
\* of the manager's Install
IsAttempt(e) == e.ev \in {"ParseFontSpec", "Manager.Install"}

Attempts == SelectSeq(last.log, IsAttempt)

\* The lines attempted, in the order of the attempts
AttemptedLines == [i \in 1..Len(Attempts) |-> Attempts[i].src]

\* An attempt failed
SomeAttemptFailed == \E i \in 1..Len(Attempts) : Attempts[i].err # NoErr

\* Every font the installer installed during the last operation is
\* installed
InstalledFontsStay ==
    \A i \in 1..Len(last.log) :
      (last.log[i].ev = "FontInstaller.Install" /\ last.log[i].err = NoErr) =>
        FontInstallerIsInstalled(dirs, files, paths.UserDir, last.log[i].font.Name)

\* C10 as stated: InstallFromConfig attempts every line that is neither
\* blank nor a comment, in file order and whatever failed before; it returns
\* an aggregate error if and only if a line failed to parse or to install;
\* what could be installed is installed
C10_AggregateErrorIffLineFailed ==
    last.op = "InstallFromConfig" =>
        /\ AttemptedLines = SelectSeq(last.reader.lines, IsEntryLine)
        /\ (last.err # NoErr) = SomeAttemptFailed
        /\ InstalledFontsStay

\* C10: InstallFromConfig attempts every line the reader delivers that is
\* neither blank nor a comment, in file order and whatever failed before; it
\* returns one aggregate error, with one collected error per failure, if and
\* only if a line failed to parse or to install or the reader failed; what
\* could be installed is installed
C10_AggregateErrorIffFailure ==
    last.op = "InstallFromConfig" =>
        /\ AttemptedLines = SelectSeq(last.reader.lines, IsEntryLine)
        /\ (last.err # NoErr) = (SomeAttemptFailed \/ last.reader.failed)
        /\ last.err \in {NoErr, <<"encountered errors during installation">>}
        /\ Len(last.errors)
             = Cardinality({i \in 1..Len(Attempts) : Attempts[i].err # NoErr})
               + (IF last.reader.failed THEN 1 ELSE 0)
        /\ InstalledFontsStay

\* A config whose first entry fails and whose second entry is installed
C10_Witness ==
    /\ last.op = "InstallFromConfig"
    /\ last.reader = Reader(<<FailingFont, FontA>>, FALSE)
    /\ last.err # NoErr
    /\ Len(last.errors) = 1
    /\ FontInstallerIsInstalled(dirs, files, paths.UserDir, FontA)

(***************************************************************************)
(* Properties of the manager: the forms of a config line                   *)
(***************************************************************************)

\* The calls InstallFromConfig made to the collaborators of Install
IsCall(e) == ~IsAttempt(e)

\* A step is a call of InstallFromConfig with a config of the one line
\* line, and it does what Install(name) may do in the same state: the same
\* calls to the sources, the network, the installer and the cache, the same
\* filesystem afterwards, and an error when Install returns one
ConfigLineInstalledAs(line, name) ==
    /\ last'.op = "InstallFromConfig"
    /\ last'.reader = Reader(<<line>>, FALSE)
    /\ \E o \in InstallOutcomes(List(dirs, files), dirs, files, sources, name, now) :
         /\ dirs' = o.dirs
         /\ files' = o.files
         /\ SelectSeq(last'.log, IsCall) = o.log
         /\ (last'.err = NoErr) = (o.err = NoErr)

\* C11: a config line that starts with http:// or https:// (and parses as a
\* URL) is installed by InstallFromConfig as Install with the whole line as
\* the name installs it: the URL is fetched, no source is searched, the font
\* is recorded with the source "url"
C11_URLLineInstalledAsURL ==
    [][\A line \in ConfigLines \cup FormLines :
         (/\ last'.op = "InstallFromConfig"
          /\ last'.reader = Reader(<<line>>, FALSE)
          /\ LooksLikeURL(TrimSpace(line))
          /\ URLParse(TrimSpace(line)).ok)
         => ConfigLineInstalledAs(line, TrimSpace(line))]_vars

\* C12: a config line name@source is resolved by InstallFromConfig as
\* Install("name@source") resolves it, through the source of that name alone
\* and with "source not found" when there is none; a line without @source
\* is resolved by searching all registered sources
C12_SourceLineInstalledFromSource ==
    [][\A line \in ConfigLines \cup FormLines :
         (/\ last'.op = "InstallFromConfig"
          /\ last'.reader = Reader(<<line>>, FALSE)
          /\ IsEntryLine(line)
          /\ ~LooksLikeURL(TrimSpace(line)))
         => ConfigLineInstalledAs(line, TrimSpace(line))]_vars

(***************************************************************************)
(* Properties of the manager: the choice of the source in Install          *)
(***************************************************************************)

\* The sources of the Search and Download calls of the log, in call order
IsSourceCall(e) == e.ev \in {"Search", "Download"}

SourceCalls(log) == SelectSeq(log, IsSourceCall)

\* A step is a call of Install, past the already-installed check, with a
\* name that is no URL and has an '@'
InstallsWithAt ==
    /\ last'.op = "Install"
    /\ now' = now
    /\ ~IsInstalled(dirs, files, last'.name).installed
    /\ ~LooksLikeURL(last'.name)
    /\ Len(Split(last'.name, "@")) > 1

\* What Install does with the source named s: "source not found" and nothing
\* else when no registered source has the name s, and otherwise calls to
\* the source named s alone
ResolvedThroughSource(s) ==
    IF \A i \in 1..Len(sources) : SourceName(sources[i]) # s
    THEN /\ last'.err = <<"source not found">>
         /\ SourceCalls(last'.log) = <<>>
         /\ dirs' = dirs
         /\ files' = files
    ELSE /\ SourceCalls(last'.log) # <<>>
         /\ \A i \in 1..Len(SourceCalls(last'.log)) :
              SourceCalls(last'.log)[i].src = s

\* C13 as stated: Install of a name with an '@' that is no URL, the part
\* after the '@' empty or not, fails with "source not found", without a
\* Search or Download and with the filesystem unchanged, when no registered
\* source has the name after the '@'; otherwise it calls the Search and
\* Download of the named source alone
C13_AtNameUsesNamedSource ==
    [][InstallsWithAt => ResolvedThroughSource(Split(last'.name, "@")[2])]_vars

\* C13: the same for a name whose part after the '@', white space trimmed,
\* is not empty; a name whose part after the '@' is blank is resolved as the
\* part before the '@' by the search of all registered sources in order
C13_AtNameUsesNonEmptySource ==
    [][InstallsWithAt =>
         IF TrimSpace(Split(last'.name, "@")[2]) # <<>>
         THEN ResolvedThroughSource(TrimSpace(Split(last'.name, "@")[2]))
         ELSE \E o \in TryAllSources(dirs, files, last'.name,
                                     TrimSpace(Split(last'.name, "@")[1]),
                                     sources, NoErr, <<>>, now) :
                /\ dirs' = o.dirs /\ files' = o.files
                /\ last'.err = o.err /\ last'.log = o.log]_vars

\* Beside a second source, a name@source whose source fails has failed
\* after calls to that source alone
C13_Witness ==
    /\ last.op = "Install"
    /\ last.name = At(FailingFont, TestSourceName)
    /\ Len(sources) = 2
    /\ last.err # NoErr
    /\ SourceCalls(last.log) # <<>>
    /\ \A i \in 1..Len(SourceCalls(last.log)) :
         SourceCalls(last.log)[i].src = TestSourceName

\* A step is a call of Install, past the already-installed check, with a
\* name that is no URL and has no '@': the fallback fan-out
InstallsByFanOut ==
    /\ last'.op = "Install"
    /\ now' = now
    /\ ~IsInstalled(dirs, files, last'.name).installed
    /\ ~LooksLikeURL(last'.name)
    /\ Len(Split(last'.name, "@")) = 1

\* The installer's Install succeeded at position k of the log
InstalledAt(log, k) ==
    log[k].ev = "FontInstaller.Install" /\ log[k].err = NoErr

\* The calls to the sources go through a prefix of the registered sources
\* in registration order: the source of each call is the source of the call
\* before it or the next registered one, a Download follows the Search of
\* its source and takes the first candidate of that Search
InRegistrationOrder(calls, name) ==
    /\ \A i \in 1..Len(calls) :
         \E k \in 1..Len(sources) :
           /\ calls[i].src = SourceName(sources[k])
           /\ Cardinality({calls[j].src : j \in 1..i}) = k
           /\ calls[i].ev = "Download" =>
                /\ i > 1
                /\ calls[i - 1].ev = "Search"
                /\ calls[i - 1].src = calls[i].src
                /\ \E sr \in SearchResults(sources[k], name) :
                     sr.fonts # <<>> /\ calls[i].font = sr.fonts[1]
    /\ \A i, j \in 1..Len(calls) :
         (calls[i].ev = "Search" /\ calls[j].ev = "Search"
          /\ calls[i].src = calls[j].src) => i = j

\* C14: in the fallback fan-out Install consults the registered sources in
\* registration order, downloads the first candidate of a Search alone, and
\* calls no Search and no Download once a source has installed the font
C14_FanOutStopsAtFirstInstall ==
    [][InstallsByFanOut =>
         /\ InRegistrationOrder(SourceCalls(last'.log), last'.name)
         /\ \A k, i \in 1..Len(last'.log) :
              (InstalledAt(last'.log, k) /\ i > k) => ~IsSourceCall(last'.log[i])]_vars

\* The error installFromSource returns for a source whose last call is e
SourceErrorOf(e) ==
    IF e.ev = "Search"
    THEN (IF e.err # NoErr THEN Wrap("searching in", e.err)
          ELSE <<"font not found in">>)
    ELSE IF e.ev = "Download" THEN Wrap("downloading from", e.err)
    ELSE IF e.ev = "FontInstaller.Install" THEN Wrap("installing font", e.err)
    ELSE e.err

\* C15: in the fallback fan-out, when no registered source installs the
\* font (no source being registered included), Install returns a "not found
\* in any source" error, which carries the error of the last source tried
C15_FanOutFailureReported ==
    [][(/\ InstallsByFanOut
        /\ \A k \in 1..Len(last'.log) : ~InstalledAt(last'.log, k))
       => /\ last'.err # NoErr
          /\ Head(last'.err) = "not found in any source"
          /\ last'.log # <<>> =>
               Tail(last'.err) = SourceErrorOf(last'.log[Len(last'.log)])]_vars

\* C16: when a registered source resolves the font and the installer's
\* Install succeeds, Install returns success whether the cache refresh
\* fails or not; in the direct URL path a failure of the cache refresh is
\* the error Install returns
C16_CacheFailureFatalOnlyForURL ==
    (/\ last.op = "Install"
     /\ \E k \in 1..Len(last.log) : InstalledAt(last.log, k))
    => IF LooksLikeURL(last.name)
       THEN last.err = last.log[Len(last.log)].err
       ELSE last.err = NoErr

(***************************************************************************)
(* Properties of the manager: RegisterSource                               *)
(***************************************************************************)

\* The names of the registered sources are pairwise distinct
SourceNamesDistinct ==
    \A i, j \in 1..Len(sources) :
      SourceName(sources[i]) = SourceName(sources[j]) => i = j

\* A call of RegisterSource that succeeds appends its source to the list; a
\* call with nil or with a source whose name is registered fails and leaves
\* the list as it is; no other operation changes the list
RegistersInCallOrder ==
    IF last'.op = "RegisterSource" /\ now' = now
    THEN IF \/ last'.source = NilSource
            \/ \E i \in 1..Len(sources) :
                 SourceName(sources[i]) = SourceName(last'.source)
         THEN last'.err # NoErr /\ sources' = sources
         ELSE last'.err = NoErr /\ sources' = Append(sources, last'.source)
    ELSE sources' = sources

\* C17: after any sequence of RegisterSource calls the names of the
\* registered sources are pairwise distinct and the list holds the sources
\* registered with success, in call order; a call with nil or with a
\* registered name fails and leaves the list unchanged
C17_SourcesDistinctInCallOrder ==
    []SourceNamesDistinct /\ [][RegistersInCallOrder]_vars

\* Two sources are registered and a source of a registered name, with other
\* fonts, has just been refused
C17_Witness ==
    /\ last.op = "RegisterSource"
    /\ last.source = SecondSource
    /\ last.err = <<"is already registered">>
    /\ sources = <<OtherSource, TestSource>>

(***************************************************************************)
(* Properties of the manager and the installer: IsInstalled                *)
(***************************************************************************)

\* The names IsInstalled is asked for: a font the installer installs, a font
\* it never installs, a name that sanitizes to an installed font's name, and
\* a name that sanitizes to the empty name
ProbeNames == {FontA, FontB, <<"@">> \o FontA, UnnamedFont}

\* The directory <userDir>/<sanitize(n)> exists and holds a font file
HoldsFontFile(n) ==
    /\ Join(paths.UserDir, sanitizeFontName(n)) \in dirs
    /\ FontFilesUnder(files, Join(paths.UserDir, sanitizeFontName(n))) # {}

\* DefaultManager.IsInstalled(n) and FontInstaller.IsInstalled(n) both equal
\* the predicate for the name n
IsInstalledAgree(n) ==
    /\ IsInstalled(dirs, files, n).installed = HoldsFontFile(n)
    /\ FontInstallerIsInstalled(dirs, files, paths.UserDir, n) = HoldsFontFile(n)

\* Every font List returns has a directory of its name that holds a font file
ListedFontsHoldFontFiles ==
    \A i \in 1..Len(List(dirs, files).fonts) :
      HoldsFontFile(List(dirs, files).fonts[i].Name)

\* Every font file of the user directory lies in a directory of the user
\* directory whose name is a sanitized name
FontFilesInSanitizedDirs ==
    \A p \in FontFilesUnder(files, paths.UserDir) :
      /\ Len(p) > Len(paths.UserDir) + 1
      /\ sanitizeFontName(p[Len(paths.UserDir) + 1]) = p[Len(paths.UserDir) + 1]

Moves(c, from, to) == running[c].pc = from /\ running'[c].pc = to

\* The sidecar file name of the font directory both calls write
SidecarOf(name) == Join(paths.UserDir, sanitizeFontName(RaceName)) \o <<name>>

\* What the sidecar file holds, or the empty file when there is none
SidecarValue(f, name) ==
    IF SidecarOf(name) \in DOMAIN f THEN f[SidecarOf(name)] ELSE TextFile(<<>>)

\* No lock: the already-installed check of a call lets the call go on
\* whenever List shows no font of the name, wherever the other call is
CheckPassesWithoutLock ==
    \A c \in CallIds :
      running[c].pc = "check" /\ running'[c].pc # "check" =>
        (running'[c].pc = "fetch") = ~IsInstalled(dirs, files, RaceName).installed

\* A sidecar write of a call puts that call's value into the file, whatever
\* the file held
SidecarWriteOverwrites ==
    \A c \in CallIds :
      /\ Moves(c, "source", "metadata") /\ running[c].font.Source # <<>> =>
           SidecarValue(files', DotSource) = TextFile(running[c].font.Source)
      /\ Moves(c, "metadata", "installed") /\ DOMAIN running[c].font.Meta # {} =>
           SidecarValue(files', DotMetadata) = JSONFile(running[c].font.Meta)
      /\ Moves(c, "installed", "cache") =>
           SidecarValue(files', DotInstalled) = TextFile(TimeStr(now))

\* No other step changes a sidecar file
SidecarsKeptByOtherSteps ==
    \A name \in {DotSource, DotMetadata, DotInstalled} :
      SidecarValue(files', name) # SidecarValue(files, name) =>
        \E c \in CallIds :
          \/ name = DotSource /\ Moves(c, "source", "metadata")
          \/ name = DotMetadata /\ Moves(c, "metadata", "installed")
          \/ name = DotInstalled /\ Moves(c, "installed", "cache")

\* C19: two Install calls for the same name, interleaved step by step: the
\* already-installed check of one is not held back by the other, every
\* sidecar write puts the writer's value in place of what the file held and
\* nothing else changes a sidecar, so that each sidecar finally holds the
\* value of the call that wrote it last
C19_LastWriterWins ==
    [][CheckPassesWithoutLock /\ SidecarWriteOverwrites
       /\ SidecarsKeptByOtherSteps]_vars

\* Both calls passed the already-installed check, both wrote the font
\* directory from different sources and returned nil; call 1 wrote .source
\* last, call 2 wrote .installed last
C19_Witness ==
    /\ \A c \in CallIds : running[c].pc = "done" /\ running[c].err = NoErr
    /\ running[1].font.Source # running[2].font.Source
    /\ SidecarValue(files, DotSource) = TextFile(running[1].font.Source)
    /\ now = 1
    /\ SidecarValue(files, DotInstalled) = TextFile(TimeStr(1))

(***************************************************************************)
(* Properties of the command line: fm install                              *)
(***************************************************************************)

\* The Install calls of the last run, in call order
CmdAttempts == SelectSeq(last.log, IsAttempt)

\* The names of attempts, in call order
NamesOf(attempts) == [i \in 1..Len(attempts) |-> attempts[i].src]

\* Install refused the name because the font is installed
IsAlreadyInstalled(e) == e.err = <<"already installed">>

\* Install failed for another reason
FailedOtherwise(e) == e.err # NoErr /\ ~IsAlreadyInstalled(e)

\* C20: a run of installCmd calls Install for every name, in argument
\* order; the names refused as already installed are the skipped ones, the
\* names that failed for another reason are the failed ones, and the
\* command returns an error exactly when a name failed for another reason
C20_ErrorIffNameFailed ==
    last.op = "installCmd" =>
        /\ NamesOf(CmdAttempts) = last.args
        /\ last.summary.skipped = NamesOf(SelectSeq(CmdAttempts, IsAlreadyInstalled))
        /\ last.summary.failed = NamesOf(SelectSeq(CmdAttempts, FailedOtherwise))
        /\ (last.err # NoErr) =
             (\E i \in 1..Len(CmdAttempts) : FailedOtherwise(CmdAttempts[i]))

(***************************************************************************)
(* Properties of the manager: Uninstall and the cache refresh              *)
(***************************************************************************)

\* The last operation made the call ev and the call returned err
Called(ev, err) ==
    \E i \in 1..Len(last.log) : last.log[i].ev = ev /\ last.log[i].err = err

\* The last operation made the call ev with an error
CallFailed(ev) ==
    \E i \in 1..Len(last.log) : last.log[i].ev = ev /\ last.log[i].err # NoErr

\* C21: an Uninstall whose os.RemoveAll removed the font directory returns
\* nil, also when the UpdateFontCache that follows fails
C21_UninstallIgnoresCacheFailure ==
    last.op = "Uninstall" /\ Called("RemoveAll", NoErr) => last.err = NoErr

\* An Uninstall removed a directory, the cache refresh failed and Uninstall
\* returned nil
C21_Witness ==
    /\ last.op = "Uninstall"
    /\ Called("RemoveAll", NoErr)
    /\ CallFailed("UpdateCache")
    /\ last.err = NoErr
    /\ ~IsInstalled(dirs, files, last.name).installed

(***************************************************************************)
(* Properties of the platform: GetFontPaths                                *)
(***************************************************************************)

\* C22: on both platform variants, when GetFontPaths returns without error
\* the user font directory it returns exists as a directory, and when it
\* returns an error it returns no paths
C22_UserDirExistsOrFailure ==
    last.op = "GetFontPaths" =>
        /\ last.err = NoErr =>
             /\ paths.UserDir # <<>>
             /\ PathStr(paths.UserDir) = last.name
             /\ paths.UserDir \in dirs
             /\ paths.UserDir \notin DOMAIN files
        /\ last.err # NoErr => paths = NoPaths

\* GetFontPaths made the darwin user font directory of a home directory
\* that no initial layout holds it for, and returned it
C22_Witness ==
    /\ last.op = "GetFontPaths"
    /\ last.err = NoErr
    /\ paths = DarwinPaths(HomeU)
    /\ paths.UserDir \in dirs
    /\ LinuxPaths(HomeV).UserDir \in dirs

(***************************************************************************)
(* Properties of the manager: the already-installed check of Install       *)
(***************************************************************************)

\* C23: an Install(n) called when IsInstalled(n) holds fails with "already
\* installed", makes no call to a source, to the network or to the
\* installer, and leaves the filesystem as it is
C23_InstalledNameRefusedFirst ==
    [][(last'.op = "Install" /\ IsInstalled(dirs, files, last'.name).installed)
       => (/\ last'.err = <<"already installed">>
           /\ last'.log = <<>>
           /\ dirs' = dirs
           /\ files' = files)]_vars

\* Install of a name that is no listed font's name but sanitizes to the name
\* of a font of the system directory was refused
C23_Witness ==
    /\ last.op = "Install"
    /\ last.name = FontA \o <<"#">>
    /\ last.err = <<"already installed">>
    /\ last.log = <<>>
    /\ FontFilesUnder(files, paths.UserDir) = {}
    /\ FontFilesUnder(files, paths.SystemDir) # {}

\* Install of a URL was refused because a font directory is named as the
\* URL sanitizes
C23_URLRefused ==
    /\ last.op = "Install"
    /\ last.name = URLOfA
    /\ last.err = <<"already installed">>

(***************************************************************************)
(* Properties of the installer: the entries extracted                      *)
(***************************************************************************)

\* The font and the archive of the installer's Install that the step makes
InstalledFont == last'.log[1].font
InstalledData == last'.log[1].data

\* The directory the font of the step is installed in
InstalledPath == Join(paths.UserDir, sanitizeFontName(InstalledFont.Name))

\* The last element of an entry name that does not end in a slash
BaseName(name) ==
    SubSeq(name, Max({0} \cup {i \in 1..Len(name) : name[i] = "/"}) + 1, Len(name))

\* The name ends in .ttf or .otf, in any case of the letters
EndsInFontExtension(name) ==
    /\ Len(name) >= 4
    /\ name[Len(name) - 3] = "."
    /\ \/ /\ name[Len(name) - 2] \in {"t", "T"}
          /\ name[Len(name) - 1] \in {"t", "T"}
          /\ name[Len(name)] \in {"f", "F"}
       \/ /\ name[Len(name) - 2] \in {"o", "O"}
          /\ name[Len(name) - 1] \in {"t", "T"}
          /\ name[Len(name)] \in {"f", "F"}

\* The name is LICENSE in any case of the letters
IsLicenseName(name) ==
    /\ Len(name) = Len(LICENSE)
    /\ \A i \in 1..Len(name) : name[i] \in {LICENSE[i], Lower[Ord(LICENSE[i]) - Ord("A") + 1]}

\* The base names of the entries of the archive that are extracted
ExtractedNames(data) ==
    {BaseName(data.File[i].Name) :
       i \in {k \in 1..Len(data.File) :
                /\ data.File[k].Name # <<>>
                /\ data.File[k].Name[Len(data.File[k].Name)] # "/"
                /\ BaseName(data.File[k].Name)[1] # "."
                /\ \/ EndsInFontExtension(BaseName(data.File[k].Name))
                   \/ IsLicenseName(BaseName(data.File[k].Name))}}

\* Nothing is at or below the path
NothingAt(d, f, path) ==
    /\ \A q \in d : IsUnder(q, path) => q = path
    /\ \A q \in DOMAIN f : ~IsUnder(q, path)

\* The files below the path that are no sidecars
PayloadFiles(f, path) ==
    {q \in DOMAIN f : /\ IsUnder(q, path)
                      /\ q[Len(q)] \notin {DotSource, DotMetadata, DotInstalled}}

\* C24: after FontInstaller.Install of a valid zip archive into an empty
\* font directory, the files of the directory that are no sidecars are
\* exactly the base names of the entries that are no directories, do not
\* begin with a dot and are font files or a LICENSE
C24_ExactlyFontAndLicenseEntries ==
    [][(/\ last'.op = "FontInstaller.Install"
        /\ InstalledData.valid
        /\ NothingAt(dirs, files, InstalledPath))
       => PayloadFiles(files', InstalledPath)
            = {Append(InstalledPath, n) : n \in ExtractedNames(InstalledData)}]_vars

\* The nested archive was installed as B: the font files and the license of
\* its entries lie side by side in the directory B
C24_Witness ==
    /\ last.op = "FontInstaller.Install"
    /\ last.name = FontB
    /\ last.err = NoErr
    /\ last.log[1].data = NestedZip
    /\ Cardinality(PayloadFiles(files, Append(paths.UserDir, FontB))) = 4

(***************************************************************************)
(* Properties of the sidecars                                              *)
(***************************************************************************)

IsInstalledEvent(e) == e.ev = "FontInstaller.Install" /\ e.err = NoErr

\* The fonts the installer installed in the step, in call order
FontsInstalledByStep == SelectSeq(last'.log, IsInstalledEvent)

\* The sidecars of the directory fontPath are those storeMetadata writes for
\* font: .installed, .source with the font's source when it has one and
\* no .source otherwise, .metadata with the font's metadata when it has some
\* and no .metadata otherwise
SidecarsDescribe(f, fontPath, font) ==
    /\ Append(fontPath, DotInstalled) \in DOMAIN f
    /\ IF font.Source # <<>>
       THEN /\ Append(fontPath, DotSource) \in DOMAIN f
            /\ f[Append(fontPath, DotSource)] = TextFile(font.Source)
       ELSE Append(fontPath, DotSource) \notin DOMAIN f
    /\ IF DOMAIN font.Meta # {}
       THEN /\ Append(fontPath, DotMetadata) \in DOMAIN f
            /\ f[Append(fontPath, DotMetadata)] = JSONFile(font.Meta)
       ELSE Append(fontPath, DotMetadata) \notin DOMAIN f

\* The sidecar files of the directories that hold an .installed file
WrittenSidecars(f) ==
    {q \in DOMAIN f : /\ q[Len(q)] \in {DotSource, DotMetadata, DotInstalled}
                      /\ Append(Dir(q), DotInstalled) \in DOMAIN f}

\* C25: after a successful Install the sidecars of the font's directory are
\* exactly those of the font installed, and no operation other than
\* Uninstall changes or removes a sidecar of an installed font
C25_SidecarsOfOneInstall ==
    [][/\ (last'.op = "Install" /\ last'.err = NoErr
           /\ FontsInstalledByStep # <<>>)
          => SidecarsDescribe(
               files',
               Join(paths.UserDir,
                    sanitizeFontName(
                      FontsInstalledByStep[Len(FontsInstalledByStep)].font.Name)),
               FontsInstalledByStep[Len(FontsInstalledByStep)].font)
       /\ last'.op # "Uninstall"
          => \A q \in WrittenSidecars(files) :
               q \in DOMAIN files' /\ files'[q] = files[q]]_vars

(***************************************************************************)
(* Properties of sanitizeFontName                                          *)
(***************************************************************************)

\* The characters of [A-Za-z0-9_-]
KeptChars == UpperChars \cup LowerChars \cup DigitChars \cup {"-", "_"}

\* out is the part of name from position k + 1 on, with every character
\* outside [A-Za-z0-9_-] replaced by '-', and the characters of name before
\* and after that part are '-' or replaced by '-'
IsSanitizedPart(name, out, k) ==
    /\ k + Len(out) <= Len(name)
    /\ \A i \in 1..Len(out) :
         out[i] = IF name[k + i] \in KeptChars THEN name[k + i] ELSE "-"
    /\ \A i \in 1..Len(name) :
         (i <= k \/ i > k + Len(out)) => name[i] \notin KeptChars \ {"-"}

\* C26: sanitizeFontName(n) holds characters of [A-Za-z0-9_-] only, every
\* other character of n replaced by '-', it neither begins nor ends with
\* '-', and sanitizing it again returns it unchanged
C26_SanitizeIsIdempotent ==
    last.op = "sanitizeFontName" =>
        /\ \A i \in 1..Len(last.result) : last.result[i] \in KeptChars
        /\ \E k \in 0..Len(last.name) : IsSanitizedPart(last.name, last.result, k)
        /\ last.result # <<>> =>
             last.result[1] # "-" /\ last.result[Len(last.result)] # "-"
        /\ sanitizeFontName(last.result) = last.result

\* A name with a slash in front and a blank inside was sanitized
C26_Witness ==
    /\ last.op = "sanitizeFontName"
    /\ last.name = <<"/", "a", " ", "Z">>
    /\ last.result = <<"a", "-", "Z">>

(***************************************************************************)
(* Properties of the manager: what Uninstall leaves alone                  *)
(***************************************************************************)

\* The files of the font named m below the directory root: those of the
\* directory m of root, and the font files of root itself named m
FilesOfFont(f, root, m) ==
    {q \in DOMAIN f :
       /\ IsUnder(q, root)
       /\ Len(q) > Len(root)
       /\ IF Len(q) = Len(root) + 1
          THEN isFontFile(q[Len(q)]) /\ FontNameOf(root, q) = m
          ELSE q[Len(root) + 1] = m}

\* The files of the font m are in f2 as they are in f1
FilesKept(f1, f2, m) ==
    \A q \in FilesOfFont(f1, paths.UserDir, m) \cup FilesOfFont(f1, paths.SystemDir, m) :
      q \in DOMAIN f2 /\ f2[q] = f1[q]

\* C27: a successful Uninstall(n) leaves every listed font m whose name
\* sanitizes differently from n as it is: its files remain and
\* IsInstalled(m) is unchanged
C27_UninstallLeavesOtherFonts ==
    [][(last'.op = "Uninstall" /\ last'.err = NoErr)
       => \A i \in 1..Len(List(dirs, files).fonts) :
            sanitizeFontName(List(dirs, files).fonts[i].Name)
              # sanitizeFontName(last'.name)
            => /\ FilesKept(files, files', List(dirs, files).fonts[i].Name)
               /\ IsInstalled(dirs', files', List(dirs, files).fonts[i].Name).installed]_vars

(***************************************************************************)
(* Properties of the installer: where Install writes                       *)
(***************************************************************************)

\* The files the step creates or changes
FilesWritten == {q \in DOMAIN files' : q \notin DOMAIN files \/ files'[q] # files[q]}

\* C28: every file FontInstaller.Install creates or overwrites lies directly
\* in <fontRoot>/<sanitize(name)>, a direct child of the font root, and the
\* only directory it makes is that one
C28_InstallWritesOnlyFontDirectory ==
    [][last'.op = "FontInstaller.Install"
       => /\ \A q \in FilesWritten :
               /\ Len(q) = Len(paths.UserDir) + 2
               /\ Dir(q) = paths.UserDir \o <<sanitizeFontName(InstalledFont.Name)>>
          /\ dirs' \ dirs \subseteq
               {paths.UserDir \o <<sanitizeFontName(InstalledFont.Name)>>}]_vars

(***************************************************************************)
(* Properties of List: the path and the directory of an entry              *)
(***************************************************************************)

\* The font files of the font directories that List names by name
FilesNamed(f, name) ==
    {p \in DOMAIN f :
        /\ isFontFile(p[Len(p)])
        /\ \/ IsUnder(p, paths.UserDir) /\ FontNameOf(paths.UserDir, p) = name
           \/ IsUnder(p, paths.SystemDir) /\ FontNameOf(paths.SystemDir, p) = name}

\* The entry's path is a font file of that name and its directory is the
\* directory that holds the file
PointsAtItsFile(f, e) ==
    /\ {"path", "directory"} \subseteq DOMAIN e.Meta
    /\ \E p \in FilesNamed(f, e.Name) :
         /\ e.Meta["path"] = PathStr(p)
         /\ e.Meta["directory"] = PathStr(Dir(p))

EveryEntryPointsAtItsFile ==
    \A i \in 1..Len(List(dirs, files).fonts) :
      PointsAtItsFile(files, List(dirs, files).fonts[i])

\* The directories that hold a font file of a font whose name sanitizes as
\* the name asked for
DirectoriesOf(f, name) ==
    {PathStr(Dir(p)) : p \in {q \in DOMAIN f :
        /\ isFontFile(q[Len(q)])
        /\ IsUnder(q, paths.UserDir)
        /\ sanitizeFontName(FontNameOf(paths.UserDir, q)) = sanitizeFontName(name)}}

UninstallRemovesAFontFilesDirectory ==
    (last'.op = "Uninstall" /\ last' # last)
      => \A i \in 1..Len(last'.log) :
           last'.log[i].ev = "RemoveAll"
             => last'.log[i].src \in DirectoriesOf(files, last'.name)

\* C29: in every Font of List, Meta["directory"] is the directory that
\* holds the listed font file and Meta["path"] is that file's path, whatever
\* keys the .metadata file of the directory holds; and the directory
\* Uninstall removes is the directory of a font file of the font asked for,
\* never one named by a .metadata file
C29_ListPointsAtTheFile ==
    /\ []EveryEntryPointsAtItsFile
    /\ [][UninstallRemovesAFontFilesDirectory]_vars

\* A directory whose .metadata names the path and the directory of another
\* installed font is listed with its own file and directory
C29_Witness ==
    /\ Append(paths.UserDir, FontM) \in dirs
    /\ (paths.UserDir \o <<FontA, DotMetadata>>) \in DOMAIN files
    /\ files[paths.UserDir \o <<FontA, DotMetadata>>].map = MetaElsewhere
    /\ \E i \in 1..Len(List(dirs, files).fonts) :
         /\ List(dirs, files).fonts[i].Name = FontA
         /\ List(dirs, files).fonts[i].Meta["directory"]
              = PathStr(Append(paths.UserDir, FontA))
         /\ List(dirs, files).fonts[i].Meta["directory"] # MetaElsewhere["directory"]
         /\ List(dirs, files).fonts[i].Meta["path"] # MetaElsewhere["path"]

\* Uninstall of a font whose .metadata named another font's directory has
\* removed the font's own directory and left the other
C29_UninstalledOwnDirectory ==
    /\ last.op = "Uninstall"
    /\ last.name = FontA
    /\ last.err = NoErr
    /\ Append(paths.UserDir, FontA) \notin dirs
    /\ Append(paths.UserDir, FontM) \in dirs

(***************************************************************************)
(* Properties of the manager: the archives one Install extracts            *)
(***************************************************************************)

\* The installer's Install at position k of the log has written entries of
\* its archive to the font directory: all of them when it succeeded, the
\* LICENSE entries when it found no font file
ArchiveExtractedAt(log, k) ==
    /\ log[k].ev = "FontInstaller.Install"
    /\ log[k].data.valid
    /\ ExtractedNames(log[k].data) # {}
    /\ log[k].err \in {NoErr, <<"no valid font files found in archive">>}

\* C30: in one Install by the fallback fan-out, once the archive of a
\* source has been extracted into a font directory, no source is searched,
\* no archive is downloaded and none is extracted in that call, whatever
\* fails afterwards
C30_OneArchiveExtracted ==
    [][InstallsByFanOut =>
         \A k, i \in 1..Len(last'.log) :
           (ArchiveExtractedAt(last'.log, k) /\ i > k)
             => last'.log[i].ev \notin {"Search", "Download", "FontInstaller.Install"}]_vars

(***************************************************************************)
(* Properties of the manager: InstallFromConfig run twice                  *)
(***************************************************************************)

\* The positions of the log at which InstallFromConfig called Install
InstallCalls(log) == {i \in 1..Len(log) : log[i].ev = "Manager.Install"}

\* The Install called at position i of the log installed a font: it made a
\* call of the installer's Install that succeeded, before the Install of the
\* next line was called
InstalledByCall(log, i) ==
    /\ i \in InstallCalls(log)
    /\ \E k \in (i + 1)..Len(log) :
         /\ InstalledAt(log, k)
         /\ \A j \in (i + 1)..k : j \notin InstallCalls(log)

\* A step is a run of InstallFromConfig on the config of the run before it,
\* no operation in between
RunsConfigAgain ==
    /\ last.op = "InstallFromConfig"
    /\ last'.op = "InstallFromConfig"
    /\ last'.reader = last.reader
    /\ dirs' # dirs \/ files' # files \/ last' # last

\* Every line the first run installed is answered "already installed" at
\* the same position among the Install calls of the second run
ReportedAlreadyInstalled(first, second) ==
    \A i \in InstallCalls(first) :
      InstalledByCall(first, i) =>
        \E j \in InstallCalls(second) :
          /\ Cardinality({k \in InstallCalls(second) : k < j})
               = Cardinality({k \in InstallCalls(first) : k < i})
          /\ second[j].src = first[i].src
          /\ second[j].err = <<"already installed">>

\* C31: InstallFromConfig run again on the same config, with the same
\* sources and no operation in between, leaves the filesystem as the first
\* run left it and reports every line the first run installed as an
\* "already installed" error of its aggregate error
C31_SecondRunChangesNothing ==
    [][RunsConfigAgain =>
         /\ dirs' = dirs
         /\ files' = files
         /\ ReportedAlreadyInstalled(last.log, last'.log)
         /\ (\E i \in InstallCalls(last.log) : InstalledByCall(last.log, i))
              => last'.err # NoErr]_vars

\* The same for a first run that returned no error: no line of it failed
C31_SecondRunAfterSuccess ==
    [][(RunsConfigAgain /\ last.err = NoErr) =>
         /\ dirs' = dirs
         /\ files' = files
         /\ ReportedAlreadyInstalled(last.log, last'.log)]_vars

(***************************************************************************)
(* Properties of List: a font directory that cannot be walked              *)
(***************************************************************************)

\* The names List gives the font files of the user directory
UserFontNames ==
    {FontNameOf(paths.UserDir, p) : p \in FontFilesUnder(files, paths.UserDir)}

\* List returns, without an error, one entry for each font of the user
\* directory and nothing else
ListsUserFontsAlone ==
    /\ List(dirs, files).err = NoErr
    /\ {List(dirs, files).fonts[i].Name : i \in 1..Len(List(dirs, files).fonts)}
         = UserFontNames
    /\ Len(List(dirs, files).fonts) = Cardinality(UserFontNames)
    /\ \A i \in 1..Len(List(dirs, files).fonts) :
         HasPrefix(List(dirs, files).fonts[i].Meta["path"], PathStr(paths.UserDir))

\* List fails, and IsInstalled with it for every name
ListAndIsInstalledFail ==
    /\ List(dirs, files).err # NoErr
    /\ List(dirs, files).fonts = <<>>
    /\ \A name \in InstallNames \cup UninstallNames :
         /\ IsInstalled(dirs, files, name).err # NoErr
         /\ ~IsInstalled(dirs, files, name).installed

WalkFailuresOfList ==
    /\ (paths.UserDir \in dirs /\ paths.SystemDir \notin dirs) => ListsUserFontsAlone
    /\ paths.UserDir \notin dirs => ListAndIsInstalledFail

\* Install and Uninstall called while the user directory cannot be walked
\* fail and change nothing
FailsWithoutUserDirectory ==
    (/\ paths.UserDir \notin dirs
     /\ last'.op \in {"Install", "Uninstall"})
    => /\ last'.err # NoErr
       /\ last'.log = <<>>
       /\ dirs' = dirs
       /\ files' = files

\* C32: when the walk of the system directory fails, List returns the
\* fonts of the user directory without an error; when the walk of the user
\* directory fails, List fails, and with it IsInstalled, Install and
\* Uninstall, each leaving the filesystem as it was
C32_SystemWalkFailureIgnored ==
    /\ []WalkFailuresOfList
    /\ [][FailsWithoutUserDirectory]_vars

\* A font was installed and is listed while the system directory is missing
C32_Witness ==
    /\ paths.SystemDir \notin dirs
    /\ paths.UserDir \in dirs
    /\ last.op = "Install"
    /\ last.err = NoErr
    /\ List(dirs, files).err = NoErr
    /\ List(dirs, files).fonts # <<>>

\* Install has failed at its check while the user directory is missing and
\* the system directory holds a font
C32_FailedWithoutUserDirectory ==
    /\ paths.UserDir \notin dirs
    /\ FontFilesUnder(files, paths.SystemDir) # {}
    /\ last.op = "Install"
    /\ last.err # NoErr
    /\ Head(last.err) = "checking if font is installed"

\* Uninstall has failed at its List while the user directory, removed by
\* an Uninstall before, is missing
C32_UninstallFailedWithoutUserDirectory ==
    /\ paths.UserDir \notin dirs
    /\ paths.SystemDir \in dirs
    /\ last.op = "Uninstall"
    /\ last.err # NoErr
    /\ Head(last.err) = "checking font installation"

(***************************************************************************)
(* Properties of the platform: UpdateFontCache on Linux                    *)
(***************************************************************************)

\* A run of fc-cache, direct or through sudo, succeeded
FcCacheSucceeded(log) ==
    \E i \in 1..Len(log) : log[i].ev = "runCommand" /\ log[i].err = NoErr

\* C33: on Linux UpdateFontCache returns success only if a run of fc-cache,
\* direct or through sudo, succeeded; it returns a failure when every run
\* attempted failed or none could be attempted after the first failure,
\* running as root included
C33_SuccessOnlyIfFcCacheSucceeded ==
    last.op = "UpdateFontCache" => (last.err = NoErr <=> FcCacheSucceeded(last.log))

\* UpdateFontCache has returned nil to root after fc-cache failed
C33_RootGetsSuccess ==
    /\ last.op = "UpdateFontCache"
    /\ last.err = NoErr
    /\ ~FcCacheSucceeded(last.log)
    /\ \E i \in 1..Len(last.log) : last.log[i] = Geteuid(Root)

\* For a user who is not root the claim holds
C33_SuccessOnlyIfFcCacheSucceededUnlessRoot ==
    (/\ last.op = "UpdateFontCache"
     /\ \A i \in 1..Len(last.log) : last.log[i] # Geteuid(Root))
    => (last.err = NoErr <=> FcCacheSucceeded(last.log))

=============================================================================
